---- MODULE Spec2Model ----
(***************************************************************************)
(* AethelFS: the in-memory filesystem engine over a DAX mapping.           *)
(*                                                                         *)
(* The model follows the later versions of the sources: the allocator and  *)
(* Filesystem of src/unnamed/part_000, the File of                         *)
(* src/internal/fs/file.go:188-378 and the Dir of src/internal/fs/dir.go.  *)
(*                                                                         *)
(* Offsets, sizes and lengths are byte counts with the program's own       *)
(* constants.  The mapping is kept sparse: mem maps the addresses that     *)
(* hold a non-zero byte to that byte; every other address reads as 0.      *)
(* Go objects live in heap, a sequence indexed by "pointer"; heap[1] is    *)
(* the root directory.  A handler that panics (a slice bound outside the   *)
(* mapping) is recovered by the FUSE server loop and answered with EIO;    *)
(* the stores it made before the panic stay.                               *)
(***************************************************************************)
EXTENDS Integers, Sequences, FiniteSets, TLC

\* ------------------------------------------------------------ constants

MetadataReservationSize == 1048576

DefaultInitialFileSize == 65536

BlockAlignmentSize == 4096

\* Length of the mapping, len(device.MmapData()): room for six initial extents.
DevSize == 1441792

\* Number of upcalls and daemon restarts in a run of the model.
MaxOps == 5

\* Requests served in a run of the concurrent specification.
MaxReqs == 3


Names == {"a", "b"}

\* Write requests (offset, data): overlapping ranges at the start of a
\* file and a range that crosses the end of the initial 64 KiB extent.
WriteReqs ==
    { [off |-> 0, data |-> <<1, 1>>],
      [off |-> 1, data |-> <<2>>],
      [off |-> 65535, data |-> <<2, 2>>] }

\* Sizes given to setattr: shrink to nothing, inside the initial extent,
\* just past it, and far past it.
TruncSizes == {0, 1, 65537, 140000}

\* Read requests (offset, size) issued as upcalls.
ReadReqs ==
    { [off |-> 0, size |-> 4],
      [off |-> 65535, size |-> 4] }

\* Names as the directory handlers get them: byte strings, here "a", the
\* empty name, "a/b" and "a\0b" (47 is '/', 0 is NUL).
DirNames == {<<97>>, <<>>, <<97, 47, 98>>, <<97, 0, 98>>}

\* The goroutines that serve upcalls at the same time (fs.Serve starts one
\* per request).
Threads == {"t1", "t2"}

\* File and Dir objects the daemon constructs in a run of the model: the
\* first root and one per name.
MaxObjs == Cardinality(Names) + 1

VARIABLES
    nextOffset,   \* Filesystem.nextOffset
    freeSpaces,   \* Filesystem.freeSpaces: sequence of [offset, size]
    inodeCount,   \* Filesystem.inodeCount
    heap,         \* the File and Dir objects; heap[1] is Filesystem.rootDir
    mem,          \* device.MmapData(), sparse
    dirty,        \* the mapping holds stores that no msync has covered yet
    shadow,       \* per file object: offset -> byte of the last write there
    ops,          \* upcalls served and restarts so far
    built,        \* File and Dir objects constructed so far
    last,         \* the last upcall served and its reply
    thr,          \* per worker goroutine: the handler it runs and its locals
    crashed,      \* the Go runtime ended the process (fatal error)
    daemon,       \* main: its position, the signal received, its steps since
    call          \* a write-back or allocator call in progress: its position and locals

vars == <<nextOffset, freeSpaces, inodeCount, heap, mem, dirty, shadow, ops, built, last,
          thr, crashed, daemon, call>>

\* ------------------------------------------------------------ helpers

\* One more upcall (or restart) of the run.
Tick == ops < MaxOps /\ ops' = ops + 1

EmptyMap == [x \in {} |-> 0]

Min(a, b) == IF a < b THEN a ELSE b

Max(a, b) == IF a > b THEN a ELSE b

\* A faulty AlignUp: the size is used as requested.
AlignUpNot(size) == size

\* ((size + align - 1) / align) * align
AlignUp(size) ==
    ((size + BlockAlignmentSize - 1) \div BlockAlignmentSize) * BlockAlignmentSize

\* One byte of the mapping.
Peek(m, a) == IF a \in DOMAIN m THEN m[a] ELSE 0

\* Go's copy(dst[0:n], src[0:n]) inside the mapping (memmove semantics).
CopyRange(m, dst, src, n) ==
    LET stale == {a \in DOMAIN m : dst <= a /\ a < dst + n}
        moved == {dst + (a - src) : a \in {x \in DOMAIN m : src <= x /\ x < src + n}}
        dom == (DOMAIN m \ stale) \cup moved
    IN  [a \in dom |-> IF dst <= a /\ a < dst + n THEN m[src + (a - dst)] ELSE m[a]]

\* copy(mapping[dst:], data)
StoreData(m, dst, data) ==
    LET rng == {dst + i - 1 : i \in 1..Len(data)}
        val(a) == IF a \in rng THEN data[a - dst + 1] ELSE m[a]
        dom == {a \in DOMAIN m \cup rng : val(a) # 0}
    IN  [a \in dom |-> val(a)]

\* A goroutine between two requests.
IdleThread ==
    [ pc |-> "idle", op |-> "", obj |-> 0, name |-> "", req |-> [off |-> 0, data |-> <<>>],
      err |-> "", newCapacity |-> 0, oldOffset |-> 0, oldLength |-> 0, newOffset |-> 0,
      child |-> 0, tmp |-> 0, snap |-> EmptyMap, nw |-> 0 ]

\* ------------------------------------------------------------ allocator

\* A faulty FirstFit: the last free extent that fits is taken.
LastFit(fl, alignedSize) ==
    LET fits == {i \in 1..Len(fl) : fl[i].size >= alignedSize}
    IN  IF fits = {} THEN 0 ELSE CHOOSE i \in fits : \A j \in fits : i >= j

\* Index of the first free extent that fits, 0 if none.
FirstFit(fl, alignedSize) ==
    LET fits == {i \in 1..Len(fl) : fl[i].size >= alignedSize}
    IN  IF fits = {} THEN 0 ELSE CHOOSE i \in fits : \A j \in fits : i <= j

RemoveAt(s, i) == SubSeq(s, 1, i - 1) \o SubSeq(s, i + 1, Len(s))

\* A faulty allocateSpace: a larger free extent is handed out without
\* being shrunk.
allocateSpaceNoShrink(no, fl, size) ==
    LET alignedSize == AlignUp(size)
        i == FirstFit(fl, alignedSize)
    IN  IF i # 0
        THEN [ offset |-> fl[i].offset,
               nextOffset |-> no,
               freeSpaces |-> IF fl[i].size > alignedSize THEN fl ELSE RemoveAt(fl, i) ]
        ELSE [ offset |-> no,
               nextOffset |-> no + alignedSize,
               freeSpaces |-> fl ]

\* Filesystem.allocateSpace: the offset returned and the allocator afterwards.
allocateSpace(no, fl, size) ==
    LET alignedSize == AlignUp(size)
        i == FirstFit(fl, alignedSize)
    IN  IF i # 0
        THEN [ offset |-> fl[i].offset,
               nextOffset |-> no,
               freeSpaces |->
                   IF fl[i].size > alignedSize
                   THEN [fl EXCEPT ![i] = [offset |-> fl[i].offset + alignedSize,
                                           size |-> fl[i].size - alignedSize]]
                   ELSE RemoveAt(fl, i) ]
        ELSE [ offset |-> no,
               nextOffset |-> no + alignedSize,
               freeSpaces |-> fl ]

\* Filesystem.freeSpace: the free list afterwards.
freeSpace(fl, offset, size) ==
    IF size <= 0
    THEN fl
    ELSE Append(fl, [offset |-> offset, size |-> AlignUp(size)])

\* ------------------------------------------------------------ objects

Ptrs == 1..Len(heap)

IsFile(p) == heap[p].kind = "file"

IsDir(p) == heap[p].kind = "dir"

Files == {p \in Ptrs : IsFile(p)}

Dirs == {p \in Ptrs : IsDir(p)}

NewDir(ino, nm) ==
    [ kind |-> "dir", inode |-> ino, name |-> nm, size |-> 4096,
      data |-> [base |-> 0, len |-> 0], offset |-> 0, children |-> EmptyMap,
      writing |-> FALSE, modTime |-> 1 ]

NewFile(ino, nm, off, length) ==
    [ kind |-> "file", inode |-> ino, name |-> nm, size |-> 0,
      data |-> [base |-> off, len |-> length], offset |-> off, children |-> EmptyMap,
      writing |-> FALSE, modTime |-> 1 ]

\* modTime = time.Now().  A node's modTime is kept as a logical timestamp:
\* the number of times the clock was stored into it, the constructor's store
\* included.
Touch(o) == [o EXCEPT !.modTime = @ + 1]

\* children[name] = child
MapPut(ch, nm, p) == [x \in DOMAIN ch \cup {nm} |-> IF x = nm THEN p ELSE ch[x]]

\* delete(children, name)
MapDelete(ch, nm) == [x \in DOMAIN ch \ {nm} |-> ch[x]]

\* The objects reachable from the root directory through child maps.
RECURSIVE ReachFrom(_, _)
ReachFrom(S, k) ==
    IF k = 0 THEN S
    ELSE ReachFrom(S \cup UNION {{heap[d].children[n] : n \in DOMAIN heap[d].children} :
                                   d \in S \cap Dirs}, k - 1)

Live == ReachFrom({1}, Len(heap))

LiveFiles == Live \cap Files

LiveDirs == Live \cap Dirs

\* ------------------------------------------------------------ file I/O

\* A faulty Read: the end of the range is not clamped to the file size.
ReadUnclamped(o, m, off, size) ==
    IF off >= o.size
    THEN [err |-> "ok", data |-> <<>>]
    ELSE [err |-> "ok",
          data |-> [i \in 1..size |-> Peek(m, o.data.base + off + i - 1)]]

\* File.Read: the reply; the handler panics (EIO) when the slice bound
\* f.data[off:end] leaves the mapping.
Read(o, m, off, size) ==
    IF off >= o.size
    THEN [err |-> "ok", data |-> <<>>]
    ELSE LET end == IF off + size > o.size THEN o.size ELSE off + size
         IN  IF o.data.base + end > DevSize
             THEN [err |-> "EIO", data |-> <<>>]
             ELSE [err |-> "ok",
                   data |-> [i \in 1..(end - off) |-> Peek(m, o.data.base + off + i - 1)]]

\* File.Attr: the size reported.
Attr(o) == [inode |-> o.inode, size |-> o.size]

\* Filesystem.Fsync: Device.Flush msyncs the whole mapping; its error is
\* logged and dropped.  ok is whether msync succeeded, d whether stores
\* were pending; the result is whether stores are still pending.
Fsync(d, ok) == IF ok THEN FALSE ELSE d

\* The logical content of a file: its size and its non-zero bytes below it.
FileView(o, m) ==
    [ size |-> o.size,
      bytes |-> [i \in {a - o.data.base :
                          a \in {x \in DOMAIN m : o.data.base <= x /\ x < o.data.base + o.size}}
                  |-> m[o.data.base + i]] ]

\* The last-write bytes after a write of data at off.
Overlay(sh, off, data) ==
    [i \in DOMAIN sh \cup {off + k - 1 : k \in 1..Len(data)} |->
        IF off <= i /\ i < off + Len(data) THEN data[i - off + 1] ELSE sh[i]]

\* A faulty GrowCopy: the new extent is taken without copying the old content.
GrowCopyNothing(m, newBase, newLen, o) == m

\* copy(newData, f.data[:f.size]) when a file moves to a new extent of
\* newLen bytes at newBase.
GrowCopy(m, newBase, newLen, o) ==
    CopyRange(m, newBase, o.data.base, Min(newLen, o.size))

\* A faulty WriteStore: the data lands at the start of the extent.
WriteStoreAtStart(m, base, req) == StoreData(m, base, req.data)

\* copy(f.data[req.Offset:], req.Data) with f.data at base.
WriteStore(m, base, req) == StoreData(m, base + req.off, req.data)

\* File.Write, parts shared by its outcomes.
WriteNewSize(req) == req.off + Len(req.data)

\* A faulty WriteGrows: only the offset is compared with the capacity.
WriteGrowsByOffset(o, req) == req.off > o.data.len

WriteGrows(o, req) == WriteNewSize(req) > o.data.len

WriteNewCapacity(o, req) ==
    IF o.data.len * 2 < WriteNewSize(req) THEN WriteNewSize(req) ELSE o.data.len * 2

WriteSyncs(req) == req.off = 0 \/ req.off < 4096

\* A faulty WriteSize: the size becomes the end of the write even when the
\* write ends below the current size.
WriteSizeAlways(o, req) == WriteNewSize(req)

\* if newSize > f.size { f.size = newSize }
WriteSize(o, req) == IF WriteNewSize(req) > o.size THEN WriteNewSize(req) ELSE o.size

\* resp.Size = len(req.Data)
WriteRespSize(req) == Len(req.data)

\* File.Write
Write(f, req, ok) ==
    LET o == heap[f]
        newSize == WriteNewSize(req)
        grow == WriteGrows(o, req)
        newCapacity == WriteNewCapacity(o, req)
        al == allocateSpace(nextOffset, freeSpaces, newCapacity)
        panic == grow /\ al.offset + newCapacity > DevSize
        base1 == IF grow THEN al.offset ELSE o.data.base
        len1 == IF grow THEN newCapacity ELSE o.data.len
        m1 == IF grow THEN GrowCopy(mem, al.offset, newCapacity, o) ELSE mem
        fl1 == IF grow
               THEN IF o.data.len > 0 THEN freeSpace(al.freeSpaces, o.offset, o.data.len)
                                      ELSE al.freeSpaces
               ELSE freeSpaces
        m2 == WriteStore(m1, base1, req)
    IN  /\ f \in LiveFiles
        /\ Tick
        /\ IF panic
           THEN /\ nextOffset' = al.nextOffset
                /\ freeSpaces' = al.freeSpaces
                /\ last' = [op |-> "write", obj |-> f, req |-> req, err |-> "EIO",
                            n |-> 0, grew |-> FALSE]
                /\ UNCHANGED <<heap, mem, dirty, shadow>>
           ELSE /\ nextOffset' = IF grow THEN al.nextOffset ELSE nextOffset
                /\ freeSpaces' = fl1
                /\ heap' = [heap EXCEPT ![f].data = [base |-> base1, len |-> len1],
                                        ![f].offset = IF grow THEN al.offset ELSE o.offset,
                                        ![f].size = WriteSize(o, req),
                                        ![f].modTime = Touch(o).modTime]
                /\ mem' = m2
                /\ dirty' = IF WriteSyncs(req) THEN Fsync(TRUE, ok) ELSE TRUE
                /\ shadow' = [shadow EXCEPT ![f] = Overlay(@, req.off, req.data)]
                /\ last' = [op |-> "write", obj |-> f, req |-> req, err |-> "ok",
                            n |-> WriteRespSize(req), grew |-> grow]
        /\ UNCHANGED <<inodeCount, built, thr, crashed, daemon, call>>

\* A faulty SetattrSize: the size only ever grows, as in Write.
SetattrSizeNoShrink(o, newSize) == IF newSize > o.size THEN newSize ELSE o.size

\* f.size = newSize
SetattrSize(o, newSize) == newSize

\* File.Setattr with a size (truncate) and no other attribute; it leaves
\* modTime as it is.
Setattr(f, newSize) ==
    LET o == heap[f]
        grow == newSize > o.data.len
        al == allocateSpace(nextOffset, freeSpaces, newSize)
        panic == grow /\ al.offset + newSize > DevSize
        m1 == IF grow THEN GrowCopy(mem, al.offset, newSize, o) ELSE mem
    IN  /\ f \in LiveFiles
        /\ Tick
        /\ IF panic
           THEN /\ nextOffset' = al.nextOffset
                /\ freeSpaces' = al.freeSpaces
                /\ last' = [op |-> "setattr", obj |-> f, size |-> newSize, err |-> "EIO",
                            grew |-> FALSE]
                /\ UNCHANGED <<heap, mem, dirty, shadow>>
           ELSE /\ nextOffset' = IF grow THEN al.nextOffset ELSE nextOffset
                /\ freeSpaces' = IF grow THEN freeSpace(al.freeSpaces, o.offset, o.data.len)
                                          ELSE freeSpaces
                /\ heap' = [heap EXCEPT
                               ![f].data = IF grow THEN [base |-> al.offset, len |-> newSize]
                                                   ELSE o.data,
                               ![f].offset = IF grow THEN al.offset ELSE o.offset,
                               ![f].size = SetattrSize(o, newSize)]
                /\ mem' = m1
                /\ dirty' = (dirty \/ m1 # mem)
                /\ shadow' = [shadow EXCEPT
                                 ![f] = [i \in {x \in DOMAIN @ : x < newSize} |-> @[i]]]
                /\ last' = [op |-> "setattr", obj |-> f, size |-> newSize, err |-> "ok",
                            grew |-> grow]
        /\ UNCHANGED <<inodeCount, built, thr, crashed, daemon, call>>

\* File.Attr or Dir.Attr as an upcall (getattr).
AttrOp(p) ==
    /\ p \in Live
    /\ Tick
    /\ last' = [op |-> "getattr", obj |-> p, err |-> "ok", attr |-> Attr(heap[p])]
    /\ UNCHANGED <<nextOffset, freeSpaces, inodeCount, heap, mem, dirty, shadow, built, thr,
                   crashed, daemon, call>>

\* File.Read as an upcall.
ReadOp(f, req) ==
    LET resp == Read(heap[f], mem, req.off, req.size)
    IN  /\ f \in LiveFiles
        /\ Tick
        /\ last' = [op |-> "read", obj |-> f, req |-> req,
                    err |-> resp.err, data |-> resp.data]
        /\ UNCHANGED <<nextOffset, freeSpaces, inodeCount, heap, mem, dirty, shadow, built, thr, crashed, daemon, call>>

\* A faulty reply: the failure of the sync is handed to the host.
SyncErrPropagated(ok) == IF ok THEN "ok" ELSE "EIO"

\* What File.Flush, File.Fsync and File.Release return after calling
\* Filesystem.Fsync, whether device.Flush succeeded (ok) or not: nil.
SyncErr(ok) == "ok"

\* The body shared by File.Flush, File.Fsync and File.Release: call
\* Filesystem.Fsync, log its error, return.
FileSync(f, op, ok) ==
    /\ f \in LiveFiles
    /\ Tick
    /\ dirty' = Fsync(dirty, ok)
    /\ last' = [op |-> op, obj |-> f, err |-> SyncErr(ok)]
    /\ UNCHANGED <<nextOffset, freeSpaces, inodeCount, heap, mem, shadow, built, thr, crashed, daemon, call>>

\* File.Flush
FileFlush(f, ok) == FileSync(f, "flush", ok)

\* File.Fsync
FileFsync(f, ok) == FileSync(f, "fsync", ok)

\* File.Release
FileRelease(f, ok) == FileSync(f, "release", ok)

\* ------------------------------------------------------------ directories

\* A faulty handler tail: d.fs.Fsync() is not called.
TreeFlushSkipped(ok) == "none"

\* The call d.fs.Fsync() that ends Dir.Create, Dir.Mkdir and Dir.Remove:
\* how the flush it requests went.  The handler does not read the result.
TreeFlush(ok) == IF ok THEN "ok" ELSE "failed"

\* Filesystem.CreateFile followed by the rest of Dir.Create.  CreateFile
\* draws one inode number, Dir.Create a second one that replaces it.
Create(d, nm, ok) ==
    LET al == allocateSpace(nextOffset, freeSpaces, DefaultInitialFileSize)
        panic == al.offset + DefaultInitialFileSize > DevSize
        child == NewFile(inodeCount + 2, nm, al.offset, DefaultInitialFileSize)
        p == Len(heap) + 1
    IN  /\ d \in LiveDirs
        /\ Tick
        /\ built < MaxObjs
        /\ nextOffset' = al.nextOffset
        /\ freeSpaces' = al.freeSpaces
        /\ IF panic
           THEN /\ inodeCount' = inodeCount + 1
                /\ last' = [op |-> "create", dir |-> d, name |-> nm, err |-> "EIO", obj |-> 0,
                            flush |-> "none"]
                /\ UNCHANGED <<heap, dirty, shadow, built>>
           ELSE /\ inodeCount' = inodeCount + 2
                /\ heap' = Append([heap EXCEPT ![d].children = MapPut(@, nm, p),
                                                ![d].modTime = Touch(heap[d]).modTime],
                                   Touch(child))
                /\ shadow' = Append(shadow, EmptyMap)
                /\ built' = built + 1
                /\ dirty' = Fsync(dirty, ok)
                /\ last' = [op |-> "create", dir |-> d, name |-> nm, err |-> "ok", obj |-> p,
                            flush |-> TreeFlush(ok)]
        /\ UNCHANGED <<mem, thr, crashed, daemon, call>>

\* Dir.Mkdir
Mkdir(d, nm, ok) ==
    LET child == NewDir(inodeCount + 1, nm)
        p == Len(heap) + 1
    IN  /\ d \in LiveDirs
        /\ Tick
        /\ built < MaxObjs
        /\ inodeCount' = inodeCount + 1
        /\ heap' = Append([heap EXCEPT ![d].children = MapPut(@, nm, p),
                                        ![d].modTime = Touch(heap[d]).modTime],
                           child)
        /\ shadow' = Append(shadow, EmptyMap)
        /\ built' = built + 1
        /\ dirty' = Fsync(dirty, ok)
        /\ last' = [op |-> "mkdir", dir |-> d, name |-> nm, err |-> "ok", obj |-> p,
                    flush |-> TreeFlush(ok)]
        /\ UNCHANGED <<nextOffset, freeSpaces, mem, thr, crashed, daemon, call>>

\* Dir.Remove serves unlink (req.Dir false) and rmdir (req.Dir true); it
\* never reads req.Dir, the kind of the child or the child's own map.
Remove(d, nm, isdir, ok) ==
    /\ d \in LiveDirs
    /\ Tick
    /\ IF nm \notin DOMAIN heap[d].children
       THEN /\ last' = [op |-> "remove", dir |-> d, name |-> nm, rmdir |-> isdir,
                        err |-> "ENOENT", obj |-> 0, flush |-> "none"]
            /\ UNCHANGED <<heap, dirty>>
       ELSE /\ heap' = [heap EXCEPT ![d].children = MapDelete(@, nm),
                                    ![d].modTime = Touch(heap[d]).modTime]
            /\ dirty' = Fsync(dirty, ok)
            /\ last' = [op |-> "remove", dir |-> d, name |-> nm, rmdir |-> isdir,
                        err |-> "ok", obj |-> heap[d].children[nm], flush |-> TreeFlush(ok)]
    /\ UNCHANGED <<nextOffset, freeSpaces, inodeCount, mem, shadow, built, thr, crashed, daemon, call>>

\* A faulty Lookup: a name that is absent resolves to the directory itself.
LookupSelf(h, d, nm) ==
    IF nm \in DOMAIN h[d].children THEN [err |-> "ok", obj |-> h[d].children[nm]]
                                   ELSE [err |-> "ok", obj |-> d]

\* Dir.Lookup on directory d of heap h: the child or ENOENT.
Lookup(h, d, nm) ==
    IF nm \in DOMAIN h[d].children THEN [err |-> "ok", obj |-> h[d].children[nm]]
                                   ELSE [err |-> "ENOENT", obj |-> 0]

\* fuse.DT_File or fuse.DT_Dir by the dynamic type of the node.
DirentType(o) == IF o.kind = "file" THEN "DT_File" ELSE "DT_Dir"

\* A faulty ReadDirAll: directories are left out of the listing.
ReadDirAllFilesOnly(h, d) ==
    { [inode |-> h[h[d].children[nm]].inode, type |-> DirentType(h[h[d].children[nm]]),
       name |-> nm] : nm \in {x \in DOMAIN h[d].children : h[h[d].children[x]].kind = "file"} }

\* Dir.ReadDirAll: one Dirent per key of the child map, in the map's
\* iteration order, which the set leaves open.
ReadDirAll(h, d) ==
    { [inode |-> h[h[d].children[nm]].inode, type |-> DirentType(h[h[d].children[nm]]),
       name |-> nm] : nm \in DOMAIN h[d].children }

\* Dir.Lookup as an upcall.
LookupOp(d, nm) ==
    /\ d \in LiveDirs
    /\ Tick
    /\ last' = [op |-> "lookup", dir |-> d, name |-> nm, err |-> Lookup(heap, d, nm).err,
                obj |-> Lookup(heap, d, nm).obj]
    /\ UNCHANGED <<nextOffset, freeSpaces, inodeCount, heap, mem, dirty, shadow, built, thr,
                   crashed, daemon, call>>

\* Dir.ReadDirAll as an upcall.
ReadDirOp(d) ==
    /\ d \in LiveDirs
    /\ Tick
    /\ last' = [op |-> "readdir", dir |-> d, err |-> "ok", entries |-> ReadDirAll(heap, d)]
    /\ UNCHANGED <<nextOffset, freeSpaces, inodeCount, heap, mem, dirty, shadow, built, thr,
                   crashed, daemon, call>>

\* ------------------------------------------------------------ statfs

\* Number of blocks of 4096 bytes that hold n bytes.
BlocksOf(n) == (n + BlockAlignmentSize - 1) \div BlockAlignmentSize

\* A faulty Statfs: the used space is subtracted from the total unguarded.
StatfsUnguarded(no, inodes, totalSize) ==
    LET usedOffset == IF no < MetadataReservationSize THEN MetadataReservationSize ELSE no
        usedSpace == usedOffset - MetadataReservationSize
        free == totalSize - usedSpace
        totalBlocks == BlocksOf(totalSize)
        freeBlocks == (free + BlockAlignmentSize - 1) \div BlockAlignmentSize
    IN  [Blocks |-> totalBlocks, Bfree |-> freeBlocks, Bavail |-> freeBlocks,
         Files |-> inodes, Bsize |-> BlockAlignmentSize, Frsize |-> BlockAlignmentSize,
         Namelen |-> 255]

\* Filesystem.Statfs for the watermark no, the inode counter and the length
\* of the mapping: the response it fills in.  The free list is not read.
Statfs(no, inodes, totalSize) ==
    LET usedOffset == IF no < MetadataReservationSize THEN MetadataReservationSize ELSE no
        usedSpace == usedOffset - MetadataReservationSize
        free == IF totalSize > usedSpace THEN totalSize - usedSpace ELSE 0
        totalBlocks == BlocksOf(totalSize)
        freeBlocks == Min(BlocksOf(free), totalBlocks)
    IN  [Blocks |-> totalBlocks, Bfree |-> freeBlocks, Bavail |-> freeBlocks,
         Files |-> inodes, Bsize |-> BlockAlignmentSize, Frsize |-> BlockAlignmentSize,
         Namelen |-> 255]

\* Filesystem.Statfs as an upcall.
StatfsOp ==
    /\ Tick
    /\ last' = [op |-> "statfs", err |-> "ok", resp |-> Statfs(nextOffset, inodeCount, DevSize)]
    /\ UNCHANGED <<nextOffset, freeSpaces, inodeCount, heap, mem, dirty, shadow, built, thr,
                   crashed, daemon, call>>

\* ------------------------------------------------------------ daemon

\* The files bound to a name in the root directory, with their content.
RootFiles ==
    LET ch == heap[1].children
    IN  [nm \in {x \in DOMAIN ch : IsFile(ch[x])} |-> FileView(heap[ch[nm]], mem)]

\* What NewFilesystem builds: an empty root and a fresh allocator.
NewFilesystem == [ inodeCount |-> 1,
                   nextOffset |-> MetadataReservationSize,
                   freeSpaces |-> <<>>,
                   rootDir |-> NewDir(1, "/") ]

\* The daemon stops (how = "unmount": main returns after fuse.Unmount and the
\* deferred device.Close; how = "kill": SIGKILL) and is started again on the
\* same device: main calls NewDevice and NewFilesystem.  The stores made
\* through the shared mapping stay in the backing object.
Remount(how) ==
    LET fresh == NewFilesystem
    IN  /\ Tick
        /\ inodeCount' = fresh.inodeCount
        /\ nextOffset' = fresh.nextOffset
        /\ freeSpaces' = fresh.freeSpaces
        /\ heap' = <<fresh.rootDir>>
        /\ shadow' = <<EmptyMap>>
        /\ last' = [op |-> "mount", how |-> how, had |-> RootFiles,
                    fsynced |-> IF last.op = "fsync" THEN heap[last.obj].name ELSE ""]
        /\ UNCHANGED <<mem, dirty, built, thr, crashed, daemon, call>>

\* The signals main asks to be notified of.
Signals == {"SIGINT", "SIGTERM"}

\* Everything but the position of main.
NotDaemon == <<nextOffset, freeSpaces, inodeCount, heap, mem, dirty, shadow, ops, built, last,
               thr, crashed, call>>

\* Dir.Create and File.Write while fs.Serve runs.
ServeCreate(d, nm, ok) == daemon.pc = "serving" /\ Create(d, nm, ok)

ServeWrite(f, req, ok) == daemon.pc = "serving" /\ Write(f, req, ok)

\* fs.Serve returns nil: the kernel closed the connection (the mountpoint
\* was unmounted from outside).  Only now main calls signal.Notify and
\* blocks on the channel.
ServeReturns ==
    /\ daemon.pc = "serving"
    /\ daemon' = [daemon EXCEPT !.pc = "waiting"]
    /\ UNCHANGED NotDaemon

\* A signal arrives while fs.Serve runs.  signal.Notify has not been
\* called, so the Go runtime's default applies: the process exits at once,
\* no deferred call runs, and the kernel drops the mapping.
SignalServing(sig) ==
    /\ daemon.pc = "serving"
    /\ daemon' = [pc |-> "exited", sig |-> sig, steps |-> <<"exit">>]
    /\ UNCHANGED NotDaemon

\* A signal arrives while main blocks on signalCh.
SignalWaiting(sig) ==
    /\ daemon.pc = "waiting"
    /\ daemon' = [pc |-> "unmounting", sig |-> sig, steps |-> <<>>]
    /\ UNCHANGED NotDaemon

\* fuse.Unmount(mountpoint); its error is logged only.
Unmount ==
    /\ daemon.pc = "unmounting"
    /\ daemon' = [daemon EXCEPT !.pc = "returning", !.steps = Append(@, "unmount")]
    /\ UNCHANGED NotDaemon

\* main returns: the deferred c.Close() runs first.
ConnClose ==
    /\ daemon.pc = "returning"
    /\ daemon' = [daemon EXCEPT !.pc = "closing", !.steps = Append(@, "connclose")]
    /\ UNCHANGED NotDaemon

\* The deferred device.Close(): Munmap, then file.Close unless Munmap
\* failed; the process ends either way.
DeviceClose(munmapOk) ==
    /\ daemon.pc = "closing"
    /\ daemon' = [daemon EXCEPT !.pc = "exited",
                                !.steps = @ \o (IF munmapOk THEN <<"munmap", "close">>
                                                            ELSE <<"munmap">>)]
    /\ UNCHANGED NotDaemon

\* A step main takes by itself, without input from outside the process.
MainStep == Unmount \/ ConnClose \/ \E munmapOk \in BOOLEAN : DeviceClose(munmapOk)

\* ------------------------------------------------------------ write-back

\* chunkSize of Device.Flush: 64 MiB.
ChunkSize == 67108864

\* Values of os.Getpagesize().
PageSizes == {4096, 65536}

\* Lengths of the mapping Device.Flush is called on: NewDevice maps more
\* than 4096 bytes; up to twice the chunk size one msync is issued.
FlushSizes ==
    {4097, 8192, 2 * ChunkSize, 2 * ChunkSize + 1, 2 * ChunkSize + 4097, 3 * ChunkSize,
     3 * ChunkSize + 70000, 4 * ChunkSize - 1}

\* Everything but the call in progress.
NotCall == <<nextOffset, freeSpaces, inodeCount, heap, mem, dirty, shadow, ops, built, last,
             thr, crashed, daemon>>

\* x rounded down and up to a multiple of the page size p.
PageDown(x, p) == (x \div p) * p

PageUp(x, p) == ((x + p - 1) \div p) * p

\* A faulty loop: the first failing chunk ends it.
ChunkAdvanceShortCircuit(offset, size, ok) == IF ok THEN offset + ChunkSize ELSE size

\* The loop of Device.Flush goes on to the next chunk whether msync failed
\* or not.
ChunkAdvance(offset, size, ok) == offset + ChunkSize

\* Device.Flush is entered on a mapping of size bytes.
FlushStart(size, pageSize) ==
    /\ call.pc = "idle"
    /\ call' = [pc |-> IF size = 0 THEN "done"
                       ELSE IF size > ChunkSize * 2 THEN "chunks" ELSE "single",
                fn |-> "Device.Flush", size |-> size, pageSize |-> pageSize, offset |-> 0,
                slices |-> <<>>, lastErr |-> FALSE, err |-> (size = 0)]
    /\ UNCHANGED NotCall

\* One iteration of the chunk loop: msync of the page-aligned chunk, which
\* succeeds (ok) or fails.
FlushChunk(ok) ==
    LET end == Min(call.offset + ChunkSize, call.size)
        alignedOffset == PageDown(call.offset, call.pageSize)
        alignedEnd == Min(PageUp(end, call.pageSize), call.size)
    IN  /\ call.pc = "chunks"
        /\ call.offset < call.size
        /\ IF alignedEnd <= alignedOffset
           THEN /\ ok
                /\ call' = [call EXCEPT !.offset = @ + ChunkSize]
           ELSE call' = [call EXCEPT
                           !.slices = Append(@, [lo |-> alignedOffset, hi |-> alignedEnd,
                                                 ok |-> ok]),
                           !.lastErr = IF ok THEN @ ELSE TRUE,
                           !.offset = ChunkAdvance(call.offset, call.size, ok)]
        /\ UNCHANGED NotCall

\* The chunk loop is over: return lastErr.
FlushChunksReturn ==
    /\ call.pc = "chunks"
    /\ call.offset >= call.size
    /\ call' = [call EXCEPT !.pc = "done", !.err = call.lastErr]
    /\ UNCHANGED NotCall

\* A mapping of at most two chunks: a single msync of the whole mapping.
FlushSingle(ok) ==
    /\ call.pc = "single"
    /\ call' = [call EXCEPT !.pc = "done", !.err = ~ok,
                            !.slices = <<[lo |-> 0, hi |-> call.size, ok |-> ok]>>]
    /\ UNCHANGED NotCall

\* cacheLineSize of EnsureDataConsistency.
CacheLineSize == 64

\* Length of the mapping and page size the region calls run on.
RegionMapSize == 10000

RegionPageSize == 4096

\* Regions FlushRegion is called with: aligned and unaligned starts, inside
\* the mapping, at its end, and beyond it.
RegionOffsets == {0, 32, 64, 100, 4096, 9936, 9990, 10000, 10001}

RegionLengths == {0, 1, 10, 64, 65, 128, 200}

\* MmapFile.FlushRegion is entered.  sse2 is cpu.X86.HasSSE2, which
\* useCLWBIfAvailable reads.
RegionStart(offset, length, sse2) ==
    /\ call.pc = "idle"
    /\ call' = [pc |-> IF offset < 0 \/ offset + length > RegionMapSize THEN "done"
                       ELSE IF length = 0 THEN "done"
                       ELSE IF sse2 THEN "clwb" ELSE "msync",
                fn |-> "FlushRegion", size |-> RegionMapSize, pageSize |-> RegionPageSize,
                offset |-> offset, length |-> length, sse2 |-> sse2, i |-> 0,
                lines |-> {}, slices |-> <<>>,
                err |-> IF offset < 0 \/ offset + length > RegionMapSize
                        THEN "bounds" ELSE "none"]
    /\ UNCHANGED NotCall

\* One iteration of EnsureDataConsistency: CLWB of the address i bytes
\* into the region, then i += cacheLineSize.
RegionClwb ==
    /\ call.pc = "clwb"
    /\ call.i < call.length
    /\ call' = [call EXCEPT !.lines = @ \cup {(call.offset + call.i) \div CacheLineSize},
                            !.i = @ + CacheLineSize]
    /\ UNCHANGED NotCall

\* The loop is over: useCLWBIfAvailable returns true, FlushRegion nil.
RegionClwbReturn ==
    /\ call.pc = "clwb"
    /\ call.i >= call.length
    /\ call' = [call EXCEPT !.pc = "done"]
    /\ UNCHANGED NotCall

\* The fallback: msync of the region widened to page boundaries and capped
\* at the end of the mapping.
RegionMsync(ok) ==
    LET alignedOffset == PageDown(call.offset, call.pageSize)
        alignedEnd == Min(PageUp(call.offset + call.length, call.pageSize), call.size)
    IN  /\ call.pc = "msync"
        /\ call' = [call EXCEPT !.pc = "done",
                                !.slices = <<[lo |-> alignedOffset, hi |-> alignedEnd,
                                              ok |-> ok]>>,
                                !.err = IF ok THEN "none" ELSE "msync"]
        /\ UNCHANGED NotCall

\* cache.CLWB on a CPU with SSE2 calls asmCLFLUSH, whose body is empty:
\* whether the mapping holds unsynced stores (d) is as before.
asmCLFLUSH(d) == d

\* MmapFile.Flush on the whole mapping.  With SSE2 useCLWBIfAvailable
\* walks the mapping through cache.CLWB and returns true, and Flush
\* returns nil; otherwise Flush returns what msync returns.
MmapFlush(sse2, ok) ==
    /\ Tick
    /\ dirty' = IF sse2 THEN asmCLFLUSH(dirty) ELSE Fsync(dirty, ok)
    /\ last' = [op |-> "mmapflush", sse2 |-> sse2,
                err |-> IF sse2 \/ ok THEN "ok" ELSE "EIO"]
    /\ UNCHANGED <<nextOffset, freeSpaces, inodeCount, heap, mem, shadow, built, thr, crashed,
                   daemon, call>>

\* ------------------------------------------------------------ concurrent handlers
\* fs.Serve runs every request in a goroutine of its own, and neither File
\* nor Dir holds a lock: the handlers below advance one statement at a
\* time, so that the statements of two requests interleave.

ConcFrame == UNCHANGED <<shadow, built, last, daemon, call>>

\* A request is handed to a goroutine.
Arrive == ops < MaxReqs /\ ops' = ops + 1

SetThr(t, rec) == thr' = [thr EXCEPT ![t] = rec]

At(t, pc) == ~crashed /\ thr[t].pc = pc

\* The handler returns (or panics and is recovered) with err.
Done(r, err) == [IdleThread EXCEPT !.pc = "done", !.op = r.op, !.obj = r.obj, !.name = r.name,
                                   !.req = r.req, !.err = err, !.nw = r.nw]

\* The goroutine of a finished request ends; its slot serves another one.
Retire(t) ==
    /\ At(t, "done")
    /\ SetThr(t, [IdleThread EXCEPT !.nw = thr[t].nw])
    /\ UNCHANGED <<nextOffset, freeSpaces, inodeCount, heap, mem, dirty, ops, crashed, daemon, call>>
    /\ ConcFrame

\* A write request arrives for a file whose create has returned; each slot
\* serves at most one write in a run.
StartWrite(t, f, req) ==
    /\ At(t, "idle") /\ thr[t].nw = 0
    /\ f \in LiveFiles
    /\ \A u \in Threads : thr[u].child # f
    /\ Arrive
    /\ SetThr(t, [IdleThread EXCEPT !.pc = "w_check", !.op = "write", !.obj = f, !.req = req,
                                    !.nw = 1])
    /\ UNCHANGED <<nextOffset, freeSpaces, inodeCount, heap, mem, dirty, crashed, daemon, call>>
    /\ ConcFrame

\* if newSize > int64(len(f.data))
WriteCheck(t) ==
    LET r == thr[t]
    IN  /\ At(t, "w_check")
        /\ SetThr(t, [r EXCEPT !.pc = IF WriteGrows(heap[r.obj], r.req) THEN "w_cap"
                                                                       ELSE "w_store"])
        /\ UNCHANGED <<nextOffset, freeSpaces, inodeCount, heap, mem, dirty, ops, crashed, daemon, call>>
        /\ ConcFrame

\* newCapacity, oldOffset, oldLength
WriteCap(t) ==
    LET r == thr[t]
        o == heap[r.obj]
    IN  /\ At(t, "w_cap")
        /\ SetThr(t, [r EXCEPT !.pc = "w_alloc", !.newCapacity = WriteNewCapacity(o, r.req),
                               !.oldOffset = o.offset, !.oldLength = o.data.len])
        /\ UNCHANGED <<nextOffset, freeSpaces, inodeCount, heap, mem, dirty, ops, crashed, daemon, call>>
        /\ ConcFrame

\* newOffset := allocateSpace(newCapacity); newData := daxMemory[newOffset:...]
WriteAlloc(t) ==
    LET r == thr[t]
        al == allocateSpace(nextOffset, freeSpaces, r.newCapacity)
    IN  /\ At(t, "w_alloc")
        /\ nextOffset' = al.nextOffset
        /\ freeSpaces' = al.freeSpaces
        /\ SetThr(t, IF al.offset + r.newCapacity > DevSize
                     THEN Done(r, "EIO")
                     ELSE [r EXCEPT !.pc = "w_copy", !.newOffset = al.offset])
        /\ UNCHANGED <<inodeCount, heap, mem, dirty, ops, crashed, daemon, call>>
        /\ ConcFrame

\* copy(newData, f.data[:f.size])
WriteCopy(t) ==
    LET r == thr[t]
        m1 == GrowCopy(mem, r.newOffset, r.newCapacity, heap[r.obj])
    IN  /\ At(t, "w_copy")
        /\ mem' = m1
        /\ dirty' = (dirty \/ m1 # mem)
        /\ SetThr(t, [r EXCEPT !.pc = "w_setdata"])
        /\ UNCHANGED <<nextOffset, freeSpaces, inodeCount, heap, ops, crashed, daemon, call>>
        /\ ConcFrame

\* f.data = newData
WriteSetData(t) ==
    LET r == thr[t]
    IN  /\ At(t, "w_setdata")
        /\ heap' = [heap EXCEPT ![r.obj].data = [base |-> r.newOffset, len |-> r.newCapacity]]
        /\ SetThr(t, [r EXCEPT !.pc = "w_setoff"])
        /\ UNCHANGED <<nextOffset, freeSpaces, inodeCount, mem, dirty, ops, crashed, daemon, call>>
        /\ ConcFrame

\* f.offset = newOffset
WriteSetOffset(t) ==
    LET r == thr[t]
    IN  /\ At(t, "w_setoff")
        /\ heap' = [heap EXCEPT ![r.obj].offset = r.newOffset]
        /\ SetThr(t, [r EXCEPT !.pc = "w_free"])
        /\ UNCHANGED <<nextOffset, freeSpaces, inodeCount, mem, dirty, ops, crashed, daemon, call>>
        /\ ConcFrame

\* if oldLength > 0 { f.fs.freeSpace(oldOffset, oldLength) }
WriteFree(t) ==
    LET r == thr[t]
    IN  /\ At(t, "w_free")
        /\ freeSpaces' = IF r.oldLength > 0 THEN freeSpace(freeSpaces, r.oldOffset, r.oldLength)
                                            ELSE freeSpaces
        /\ SetThr(t, [r EXCEPT !.pc = "w_store"])
        /\ UNCHANGED <<nextOffset, inodeCount, heap, mem, dirty, ops, crashed, daemon, call>>
        /\ ConcFrame

\* copy(f.data[req.Offset:], req.Data): the slice panics when the offset is
\* past len(f.data); copy stops at the end of the shorter slice.
WriteData(t) ==
    LET r == thr[t]
        o == heap[r.obj]
        n == Min(Len(r.req.data), o.data.len - r.req.off)
        m1 == WriteStore(mem, o.data.base, [off |-> r.req.off, data |-> SubSeq(r.req.data, 1, n)])
    IN  /\ At(t, "w_store")
        /\ IF r.req.off > o.data.len
           THEN /\ SetThr(t, Done(r, "EIO"))
                /\ UNCHANGED <<mem, dirty>>
           ELSE /\ mem' = m1
                /\ dirty' = TRUE
                /\ SetThr(t, [r EXCEPT !.pc = "w_size"])
        /\ UNCHANGED <<nextOffset, freeSpaces, inodeCount, heap, ops, crashed, daemon, call>>
        /\ ConcFrame

\* if newSize > f.size
WriteSizeCheck(t) ==
    LET r == thr[t]
    IN  /\ At(t, "w_size")
        /\ SetThr(t, [r EXCEPT !.pc = IF WriteNewSize(r.req) > heap[r.obj].size
                                      THEN "w_setsize" ELSE "w_ret"])
        /\ UNCHANGED <<nextOffset, freeSpaces, inodeCount, heap, mem, dirty, ops, crashed, daemon, call>>
        /\ ConcFrame

\* f.size = newSize
WriteSetSize(t) ==
    LET r == thr[t]
    IN  /\ At(t, "w_setsize")
        /\ heap' = [heap EXCEPT ![r.obj].size = WriteNewSize(r.req)]
        /\ SetThr(t, [r EXCEPT !.pc = "w_ret"])
        /\ UNCHANGED <<nextOffset, freeSpaces, inodeCount, mem, dirty, ops, crashed, daemon, call>>
        /\ ConcFrame

\* modTime, resp.Size, the flush of a write below 4096, return nil
WriteReturn(t, ok) ==
    LET r == thr[t]
    IN  /\ At(t, "w_ret")
        /\ heap' = [heap EXCEPT ![r.obj].modTime = Touch(heap[r.obj]).modTime]
        /\ dirty' = IF WriteSyncs(r.req) THEN Fsync(dirty, ok) ELSE dirty
        /\ SetThr(t, Done(r, "ok"))
        /\ UNCHANGED <<nextOffset, freeSpaces, inodeCount, mem, ops, crashed, daemon, call>>
        /\ ConcFrame

\* A create, mkdir or remove request arrives for directory d.
StartCreate(t, d, nm) ==
    /\ At(t, "idle")
    /\ d \in LiveDirs
    /\ Arrive
    /\ built < MaxObjs
    /\ SetThr(t, [IdleThread EXCEPT !.pc = "c_alloc", !.op = "create", !.obj = d, !.name = nm,
                                    !.nw = thr[t].nw])
    /\ UNCHANGED <<nextOffset, freeSpaces, inodeCount, heap, mem, dirty, crashed, daemon, call>>
    /\ ConcFrame

StartMkdir(t, d, nm) ==
    /\ At(t, "idle")
    /\ d \in LiveDirs
    /\ Arrive
    /\ built < MaxObjs
    /\ SetThr(t, [IdleThread EXCEPT !.pc = "ino_r", !.op = "mkdir", !.obj = d, !.name = nm,
                                    !.nw = thr[t].nw])
    /\ UNCHANGED <<nextOffset, freeSpaces, inodeCount, heap, mem, dirty, crashed, daemon, call>>
    /\ ConcFrame

StartRemove(t, d, nm) ==
    /\ At(t, "idle")
    /\ d \in LiveDirs
    /\ Arrive
    /\ SetThr(t, [IdleThread EXCEPT !.pc = "r_lookup", !.op = "remove", !.obj = d, !.name = nm,
                                    !.nw = thr[t].nw])
    /\ UNCHANGED <<nextOffset, freeSpaces, inodeCount, heap, mem, dirty, crashed, daemon, call>>
    /\ ConcFrame

\* CreateFile: offset := f.allocateSpace(initialSize), under the allocator's
\* mutexes.
CreateAlloc(t) ==
    LET r == thr[t]
        al == allocateSpace(nextOffset, freeSpaces, DefaultInitialFileSize)
    IN  /\ At(t, "c_alloc")
        /\ nextOffset' = al.nextOffset
        /\ freeSpaces' = al.freeSpaces
        /\ SetThr(t, [r EXCEPT !.pc = "ino_r", !.newOffset = al.offset])
        /\ UNCHANGED <<inodeCount, heap, mem, dirty, ops, crashed, daemon, call>>
        /\ ConcFrame

\* nextInode, f.inodeCount++ : the load of the counter
InodeLoad(t) ==
    LET r == thr[t]
    IN  /\ At(t, "ino_r")
        /\ SetThr(t, [r EXCEPT !.pc = "ino_w", !.tmp = inodeCount])
        /\ UNCHANGED <<nextOffset, freeSpaces, inodeCount, heap, mem, dirty, ops, crashed, daemon, call>>
        /\ ConcFrame

\* nextInode, f.inodeCount++ : the store of the incremented value, which is
\* also the value returned.  What follows depends on the caller: CreateFile
\* builds the File (the slice of the mapping panics past the device's end),
\* Dir.Create overwrites the child's inode, Dir.Mkdir builds the Dir.
InodeStore(t) ==
    LET r == thr[t]
        ino == r.tmp + 1
        p == Len(heap) + 1
    IN  /\ At(t, "ino_w")
        /\ inodeCount' = ino
        /\ IF r.op = "mkdir"
           THEN /\ heap' = Append(heap, NewDir(ino, r.name))
                /\ SetThr(t, [r EXCEPT !.pc = "map_begin", !.child = p])
           ELSE IF r.child # 0
           THEN /\ heap' = [heap EXCEPT ![r.child].inode = ino,
                                        ![r.child].modTime = Touch(heap[r.child]).modTime]
                /\ SetThr(t, [r EXCEPT !.pc = "map_begin"])
           ELSE IF r.newOffset + DefaultInitialFileSize > DevSize
           THEN /\ SetThr(t, Done(r, "EIO"))
                /\ UNCHANGED heap
           ELSE /\ heap' = Append(heap, NewFile(ino, r.name, r.newOffset, DefaultInitialFileSize))
                /\ SetThr(t, [r EXCEPT !.pc = "ino_r", !.child = p])
        /\ shadow' = IF Len(heap') > Len(heap) THEN Append(shadow, EmptyMap) ELSE shadow
        /\ built' = IF Len(heap') > Len(heap) THEN built + 1 ELSE built
        /\ UNCHANGED <<nextOffset, freeSpaces, mem, dirty, ops, last, crashed, daemon, call>>

\* Dir.Remove: if _, ok := d.children[req.Name]; !ok { return ENOENT }.
\* The runtime aborts the process when a map read sees the map's writer
\* flag set; a read that misses the flag goes on.
RemoveLookup(t, detect) ==
    LET r == thr[t]
        d == heap[r.obj]
    IN  /\ At(t, "r_lookup")
        /\ detect => d.writing
        /\ crashed' = detect
        /\ SetThr(t, IF r.name \in DOMAIN d.children THEN [r EXCEPT !.pc = "map_begin"]
                                                      ELSE Done(r, "ENOENT"))
        /\ UNCHANGED <<nextOffset, freeSpaces, inodeCount, heap, mem, dirty, ops>>
        /\ ConcFrame

\* d.children[req.Name] = child and delete(d.children, req.Name), first
\* half: the runtime aborts the process ("concurrent map writes") when it
\* sees the writer flag set; otherwise it sets the flag and works on the
\* buckets it has loaded.
MapBegin(t, detect) ==
    LET r == thr[t]
        d == heap[r.obj]
    IN  /\ At(t, "map_begin")
        /\ detect => d.writing
        /\ crashed' = detect
        /\ heap' = [heap EXCEPT ![r.obj].writing = TRUE]
        /\ SetThr(t, [r EXCEPT !.pc = "map_end", !.snap = d.children])
        /\ UNCHANGED <<nextOffset, freeSpaces, inodeCount, mem, dirty, ops>>
        /\ ConcFrame

\* Second half of the map assignment or delete: the runtime aborts when the
\* writer flag has been cleared under it; otherwise the entry is stored,
\* into the map as it is now or over the buckets loaded at the start, and
\* the flag is cleared.
MapEnd(t, stale) ==
    LET r == thr[t]
        d == heap[r.obj]
        base == IF stale THEN r.snap ELSE d.children
        after == IF r.op = "remove" THEN MapDelete(base, r.name) ELSE MapPut(base, r.name, r.child)
    IN  /\ At(t, "map_end")
        /\ crashed' = ~d.writing
        /\ heap' = [heap EXCEPT ![r.obj].children = after, ![r.obj].writing = FALSE]
        /\ SetThr(t, [r EXCEPT !.pc = "d_ret"])
        /\ UNCHANGED <<nextOffset, freeSpaces, inodeCount, mem, dirty, ops>>
        /\ ConcFrame

\* d.modTime = time.Now(); d.fs.Fsync(); return
DirReturn(t, ok) ==
    LET r == thr[t]
    IN  /\ At(t, "d_ret")
        /\ heap' = [heap EXCEPT ![r.obj].modTime = Touch(heap[r.obj]).modTime]
        /\ dirty' = Fsync(dirty, ok)
        /\ SetThr(t, Done(r, "ok"))
        /\ UNCHANGED <<nextOffset, freeSpaces, inodeCount, mem, ops, crashed, daemon, call>>
        /\ ConcFrame

\* ------------------------------------------------------------ specification

Init ==
    /\ inodeCount = NewFilesystem.inodeCount
    /\ nextOffset = NewFilesystem.nextOffset
    /\ freeSpaces = NewFilesystem.freeSpaces
    /\ heap = <<NewFilesystem.rootDir>>
    /\ mem = EmptyMap
    /\ dirty = FALSE
    /\ shadow = <<EmptyMap>>
    /\ ops = 0
    /\ built = 1
    /\ last = [op |-> "mount", how |-> "first", had |-> EmptyMap, fsynced |-> ""]
    /\ thr = [t \in Threads |-> IdleThread]
    /\ crashed = FALSE
    /\ daemon = [pc |-> "serving", sig |-> "none", steps |-> <<>>]
    /\ call = [pc |-> "idle"]

Next ==
    \/ \E d \in Ptrs, nm \in Names, ok \in BOOLEAN : Create(d, nm, ok)
    \/ \E d \in Ptrs, nm \in Names, ok \in BOOLEAN : Mkdir(d, nm, ok)
    \/ \E d \in Ptrs, nm \in Names, isdir, ok \in BOOLEAN : Remove(d, nm, isdir, ok)
    \/ \E f \in Ptrs, req \in WriteReqs, ok \in BOOLEAN : Write(f, req, ok)
    \/ \E f \in Ptrs, n \in TruncSizes : Setattr(f, n)
    \/ \E f \in Ptrs, req \in ReadReqs : ReadOp(f, req)
    \/ \E f \in Ptrs, ok \in BOOLEAN : FileFsync(f, ok)
    \/ \E how \in {"unmount", "kill"} : Remount(how)

Spec == Init /\ [][Next]_vars

NextConc ==
    \/ \E t \in Threads, f \in Ptrs, req \in WriteReqs : StartWrite(t, f, req)
    \/ \E t \in Threads : WriteCheck(t)
    \/ \E t \in Threads : WriteCap(t)
    \/ \E t \in Threads : WriteAlloc(t)
    \/ \E t \in Threads : WriteCopy(t)
    \/ \E t \in Threads : WriteSetData(t)
    \/ \E t \in Threads : WriteSetOffset(t)
    \/ \E t \in Threads : WriteFree(t)
    \/ \E t \in Threads : WriteData(t)
    \/ \E t \in Threads : WriteSizeCheck(t)
    \/ \E t \in Threads : WriteSetSize(t)
    \/ \E t \in Threads, ok \in BOOLEAN : WriteReturn(t, ok)
    \/ \E t \in Threads, d \in Ptrs, nm \in Names : StartCreate(t, d, nm)
    \/ \E t \in Threads, d \in Ptrs, nm \in Names : StartMkdir(t, d, nm)
    \/ \E t \in Threads, d \in Ptrs, nm \in Names : StartRemove(t, d, nm)
    \/ \E t \in Threads : CreateAlloc(t)
    \/ \E t \in Threads : InodeLoad(t)
    \/ \E t \in Threads : InodeStore(t)
    \/ \E t \in Threads, detect \in BOOLEAN : RemoveLookup(t, detect)
    \/ \E t \in Threads, detect \in BOOLEAN : MapBegin(t, detect)
    \/ \E t \in Threads, stale \in BOOLEAN : MapEnd(t, stale)
    \/ \E t \in Threads, ok \in BOOLEAN : DirReturn(t, ok)
    \/ \E t \in Threads : Retire(t)

SpecConc == Init /\ [][NextConc]_vars

\* The directory handlers alone, fed every name a request can carry.
NextDir ==
    \/ \E d \in Ptrs, nm \in DirNames, ok \in BOOLEAN : Create(d, nm, ok)
    \/ \E d \in Ptrs, nm \in DirNames, ok \in BOOLEAN : Mkdir(d, nm, ok)
    \/ \E d \in Ptrs, nm \in DirNames, isdir, ok \in BOOLEAN : Remove(d, nm, isdir, ok)
    \/ \E d \in Ptrs, nm \in DirNames : LookupOp(d, nm)
    \/ \E d \in Ptrs : ReadDirOp(d)

SpecDir == Init /\ [][NextDir]_vars

\* The handlers that move the allocator, and statfs.
NextStat ==
    \/ \E d \in Ptrs, nm \in Names, ok \in BOOLEAN : Create(d, nm, ok)
    \/ \E d \in Ptrs, nm \in Names, isdir, ok \in BOOLEAN : Remove(d, nm, isdir, ok)
    \/ \E f \in Ptrs, req \in WriteReqs, ok \in BOOLEAN : Write(f, req, ok)
    \/ \E f \in Ptrs, n \in TruncSizes : Setattr(f, n)
    \/ StatfsOp

SpecStat == Init /\ [][NextStat]_vars

\* The data path of a file with its three persistence upcalls.
NextSync ==
    \/ \E d \in Ptrs, nm \in Names, ok \in BOOLEAN : Create(d, nm, ok)
    \/ \E f \in Ptrs, req \in WriteReqs, ok \in BOOLEAN : Write(f, req, ok)
    \/ \E f \in Ptrs, n \in TruncSizes : Setattr(f, n)
    \/ \E f \in Ptrs, ok \in BOOLEAN : FileFlush(f, ok)
    \/ \E f \in Ptrs, ok \in BOOLEAN : FileFsync(f, ok)
    \/ \E f \in Ptrs, ok \in BOOLEAN : FileRelease(f, ok)

SpecSync == Init /\ [][NextSync]_vars

\* main from fs.Serve to the end of the process, with the upcalls that
\* leave stores in the mapping.
NextDaemon ==
    \/ \E d \in Ptrs, nm \in Names, ok \in BOOLEAN : ServeCreate(d, nm, ok)
    \/ \E f \in Ptrs, req \in WriteReqs, ok \in BOOLEAN : ServeWrite(f, req, ok)
    \/ ServeReturns
    \/ \E sig \in Signals : SignalServing(sig)
    \/ \E sig \in Signals : SignalWaiting(sig)
    \/ Unmount
    \/ ConnClose
    \/ \E munmapOk \in BOOLEAN : DeviceClose(munmapOk)

SpecDaemon == Init /\ [][NextDaemon]_vars

\* One call of Device.Flush.
NextFlush ==
    \/ \E size \in FlushSizes, pageSize \in PageSizes : FlushStart(size, pageSize)
    \/ \E ok \in BOOLEAN : FlushChunk(ok)
    \/ FlushChunksReturn
    \/ \E ok \in BOOLEAN : FlushSingle(ok)

SpecFlush == Init /\ [][NextFlush]_vars

\* One call of MmapFile.FlushRegion.
NextRegion ==
    \/ \E offset \in RegionOffsets, length \in RegionLengths, sse2 \in BOOLEAN :
           RegionStart(offset, length, sse2)
    \/ RegionClwb
    \/ RegionClwbReturn
    \/ \E ok \in BOOLEAN : RegionMsync(ok)

SpecRegion == Init /\ [][NextRegion]_vars

\* Stores into the mapping and MmapFile.Flush on either persistence path.
NextMmap ==
    \/ \E d \in Ptrs, nm \in Names, ok \in BOOLEAN : Create(d, nm, ok)
    \/ \E f \in Ptrs, req \in WriteReqs, ok \in BOOLEAN : Write(f, req, ok)
    \/ \E sse2, ok \in BOOLEAN : MmapFlush(sse2, ok)

SpecMmap == Init /\ [][NextMmap]_vars

\* The upcalls that allocate nothing, with create and write to make files.
NextFrame ==
    \/ \E d \in Ptrs, nm \in Names, ok \in BOOLEAN : Create(d, nm, ok)
    \/ \E f \in Ptrs, req \in WriteReqs, ok \in BOOLEAN : Write(f, req, ok)
    \/ \E d \in Ptrs, nm \in Names, ok \in BOOLEAN : Mkdir(d, nm, ok)
    \/ \E d \in Ptrs, nm \in Names, ok \in BOOLEAN : Remove(d, nm, TRUE, ok)
    \/ \E d \in Ptrs, nm \in Names : LookupOp(d, nm)
    \/ \E d \in Ptrs : ReadDirOp(d)
    \/ \E p \in Ptrs : AttrOp(p)
    \/ \E f \in Ptrs, req \in ReadReqs : ReadOp(f, req)
    \/ StatfsOp
    \/ \E f \in Ptrs, ok \in BOOLEAN : FileFlush(f, ok)
    \/ \E f \in Ptrs, ok \in BOOLEAN : FileFsync(f, ok)

SpecFrame == Init /\ [][NextFrame]_vars

\* ------------------------------------------------------------ allocator locks
\* The allocator one lock operation at a time.  ver "part_000" is the
\* allocator of src/unnamed/part_000 (offsetMu, freeSpacesMu, free list);
\* ver "fs.go" is the allocator of src/internal/fs/fs.go (offsetMutex, no
\* free list).  A sync.Mutex is not reentrant: Lock blocks while the mutex
\* is held, by whichever goroutine.

\* Calls a goroutine makes in a run of the lock model.
MaxCalls == 2

Versions == {"part_000", "fs.go"}

\* Sizes asked of allocateSpace: the 1 KiB of fs.go's CreateFile, the
\* initial extent, and more than the data area of the device holds.
LockSizes == {1024, DefaultInitialFileSize, DevSize}

IdleGoroutine == [pc |-> "idle", fn |-> "", size |-> 0, offset |-> 0, depth |-> 0, n |-> 0]

SetG(t, rec) == [call EXCEPT !.g[t] = rec]

\* NewFilesystem of either version: both mutexes free; fs.go leaves
\* nextOffset zero until the first allocation.
LockStart(ver) ==
    /\ call.pc = "idle"
    /\ call' = [pc |-> "locks", ver |-> ver, offsetMu |-> "", freeSpacesMu |-> "",
                nextOffset |-> IF ver = "fs.go" THEN 0 ELSE NewFilesystem.nextOffset,
                freeSpaces |-> NewFilesystem.freeSpaces,
                g |-> [t \in Threads |-> IdleGoroutine]]
    /\ UNCHANGED NotCall

\* A goroutine enters allocateSpace(size); the first statement of both
\* versions locks the offset mutex.
AllocCall(t, size) ==
    /\ call.pc = "locks"
    /\ call.g[t].pc = "idle" /\ call.g[t].n < MaxCalls
    /\ call' = SetG(t, [call.g[t] EXCEPT !.pc = "lock_offset", !.fn = "allocateSpace",
                                         !.size = size, !.depth = 0])
    /\ UNCHANGED NotCall

\* A goroutine enters freeSpace(offset, size) of part_000: size <= 0
\* returns at once, otherwise the next statement locks freeSpacesMu.
FreeCall(t, offset, size) ==
    /\ call.pc = "locks" /\ call.ver = "part_000"
    /\ call.g[t].pc = "idle" /\ call.g[t].n < MaxCalls
    /\ call' = SetG(t, IF size <= 0
                       THEN [call.g[t] EXCEPT !.fn = "freeSpace", !.n = @ + 1]
                       ELSE [call.g[t] EXCEPT !.pc = "lock_free", !.fn = "freeSpace",
                                              !.size = size, !.offset = offset, !.depth = 0])
    /\ UNCHANGED NotCall

\* f.offsetMu.Lock() / f.offsetMutex.Lock(): proceeds when the mutex is free.
LockOffsetMu(t) ==
    /\ call.pc = "locks"
    /\ call.g[t].pc = "lock_offset"
    /\ call.offsetMu = ""
    /\ call' = [SetG(t, [call.g[t] EXCEPT !.pc = IF call.ver = "part_000" THEN "lock_free"
                                                                        ELSE "body"])
                  EXCEPT !.offsetMu = t]
    /\ UNCHANGED NotCall

\* f.freeSpacesMu.Lock(): proceeds when the mutex is free.
LockFreeSpacesMu(t) ==
    /\ call.pc = "locks"
    /\ call.g[t].pc = "lock_free"
    /\ call.freeSpacesMu = ""
    /\ call' = [SetG(t, [call.g[t] EXCEPT !.pc = "body"]) EXCEPT !.freeSpacesMu = t]
    /\ UNCHANGED NotCall

\* part_000: the body of allocateSpace and of freeSpace under the locks.
LockedBody(t) ==
    LET r == call.g[t]
        al == allocateSpace(call.nextOffset, call.freeSpaces, r.size)
    IN  /\ call.pc = "locks" /\ call.ver = "part_000"
        /\ r.pc = "body"
        /\ call' = IF r.fn = "allocateSpace"
                   THEN [SetG(t, [r EXCEPT !.pc = "unlock", !.offset = al.offset])
                           EXCEPT !.nextOffset = al.nextOffset, !.freeSpaces = al.freeSpaces]
                   ELSE [SetG(t, [r EXCEPT !.pc = "unlock"])
                           EXCEPT !.freeSpaces = freeSpace(call.freeSpaces, r.offset, r.size)]
        /\ UNCHANGED NotCall

\* fs.go: the body of allocateSpace.  nextOffset is initialised on first
\* use and advanced to the next 4 KiB boundary; when offset + size is past
\* the mapping, nextOffset is reset and the function calls itself, its
\* deferred Unlock still pending.
EarlyBody(t) ==
    LET r == call.g[t]
        base == IF call.nextOffset = 0 THEN MetadataReservationSize ELSE call.nextOffset
        newOffset == AlignUp(base + r.size)
    IN  /\ call.pc = "locks" /\ call.ver = "fs.go"
        /\ r.pc = "body"
        /\ call' = IF base + r.size > DevSize
                   THEN [SetG(t, [r EXCEPT !.pc = "lock_offset", !.depth = @ + 1])
                           EXCEPT !.nextOffset = MetadataReservationSize]
                   ELSE [SetG(t, [r EXCEPT !.pc = "unlock", !.offset = base])
                           EXCEPT !.nextOffset = newOffset]
        /\ UNCHANGED NotCall

\* The deferred Unlock calls run and the call returns.
LockReturn(t) ==
    /\ call.pc = "locks"
    /\ call.g[t].pc = "unlock"
    /\ call' = [SetG(t, [call.g[t] EXCEPT !.pc = "idle", !.n = @ + 1])
                  EXCEPT !.offsetMu = IF @ = t THEN "" ELSE @,
                         !.freeSpacesMu = IF @ = t THEN "" ELSE @]
    /\ UNCHANGED NotCall

NextLock ==
    \/ \E ver \in Versions : LockStart(ver)
    \/ \E t \in Threads, size \in LockSizes : AllocCall(t, size)
    \/ \E t \in Threads, size \in {0, DefaultInitialFileSize} :
           FreeCall(t, MetadataReservationSize, size)
    \/ \E t \in Threads : LockOffsetMu(t)
    \/ \E t \in Threads : LockFreeSpacesMu(t)
    \/ \E t \in Threads : LockedBody(t)
    \/ \E t \in Threads : EarlyBody(t)
    \/ \E t \in Threads : LockReturn(t)

SpecLock == Init /\ [][NextLock]_vars

\* ------------------------------------------------------------ properties

\* Read requests the properties evaluate File.Read on.
ReadProbes ==
    { [off |-> o, size |-> n] : o \in {0, 1, 2, 65535, 65536, 65537}, n \in {1, 2, 3} }

RECURSIVE SumSeq(_, _)
SumSeq(s, i) == IF i > Len(s) THEN 0 ELSE s[i].size + SumSeq(s, i + 1)

RECURSIVE SumExtents(_)
SumExtents(S) ==
    IF S = {} THEN 0
    ELSE LET f == CHOOSE x \in S : TRUE
         IN  AlignUp(heap[f].data.len) + SumExtents(S \ {f})

\* The extent a file owns, rounded to blocks as the allocator hands it out.
Extent(o) == [lo |-> o.offset, hi |-> o.offset + AlignUp(o.data.len)]

FreeExtent(i) ==
    [lo |-> freeSpaces[i].offset, hi |-> freeSpaces[i].offset + freeSpaces[i].size]

Disjoint(e1, e2) == e1.hi <= e2.lo \/ e2.hi <= e1.lo

\* C1 (read-your-writes): a read of any range below the file size returns,
\* at every offset some write covered, the byte of the last such write.
C1_ReadYourWrites ==
    \A f \in Files : \A req \in ReadProbes :
        LET r == Read(heap[f], mem, req.off, req.size)
        IN  /\ r.err = "ok"
            /\ \A k \in 1..Len(r.data) :
                   (req.off + k - 1) \in DOMAIN shadow[f]
                       => r.data[k] = shadow[f][req.off + k - 1]

\* A file that was written twice over the same offset and then moved to a
\* larger extent by a third write.
C1_Witness ==
    /\ last.op = "write" /\ last.err = "ok" /\ last.grew
    /\ {0, 1, 65535, 65536} \subseteq DOMAIN shadow[last.obj]
    /\ shadow[last.obj][0] = 1 /\ shadow[last.obj][1] = 2
    /\ Read(heap[last.obj], mem, 0, 3).data = <<1, 2, 0>>

\* C2 (growth correctness): a write or truncate that moves the file to a
\* larger extent leaves every byte below the old size that it does not
\* itself overwrite reading back as before.
C2_GrowthKeepsPrefix ==
    [][ (ops' # ops /\ last'.op \in {"write", "setattr"} /\ last'.err = "ok" /\ last'.grew)
        => LET f == last'.obj
               old == heap[f]
               new == heap'[f]
               offs == {a - old.data.base : a \in DOMAIN mem}
                         \cup {a - new.data.base : a \in DOMAIN mem'}
               covered(i) == /\ last'.op = "write"
                             /\ last'.req.off <= i
                             /\ i < last'.req.off + Len(last'.req.data)
           IN  /\ new.data.len > old.data.len
               /\ new.offset # old.offset
               /\ \A i \in offs :
                      (0 <= i /\ i < old.size /\ ~covered(i))
                          => /\ Read(new, mem', i, 1).data = Read(old, mem, i, 1).data
                             /\ Len(Read(new, mem', i, 1).data) = 1 ]_vars

\* A file holding data was just moved to a larger extent.
C2_Witness ==
    /\ last.op \in {"write", "setattr"} /\ last.err = "ok" /\ last.grew
    /\ Read(heap[last.obj], mem, 0, 2).data = <<1, 2>>

\* C3 (extent exclusivity): extents of distinct live files are pairwise
\* disjoint, no live file's extent overlaps a free-list extent, and the
\* free-list extents are pairwise disjoint.
C3_ExtentExclusivity ==
    /\ \A f, g \in LiveFiles : f # g => Disjoint(Extent(heap[f]), Extent(heap[g]))
    /\ \A f \in LiveFiles : \A i \in 1..Len(freeSpaces) :
           Disjoint(Extent(heap[f]), FreeExtent(i))
    /\ \A i, j \in 1..Len(freeSpaces) : i # j => Disjoint(FreeExtent(i), FreeExtent(j))

\* Two live files, one of them in an extent cut from the front of a larger
\* free extent whose rest is still free.
C3_Witness ==
    /\ Cardinality(LiveFiles) = 2
    /\ \E f \in LiveFiles : \E i \in 1..Len(freeSpaces) :
           /\ Extent(heap[f]).hi = FreeExtent(i).lo
           /\ freeSpaces[i].size < DefaultInitialFileSize

\* C4 (space conservation): live extents + free list + metadata
\* reservation + the space above the watermark = the usable area.
C4_SpaceConservation ==
    SumExtents(LiveFiles) + SumSeq(freeSpaces, 1) + MetadataReservationSize
        + (DevSize - nextOffset) = DevSize

\* C5: the logical size of a live file never exceeds the length of the
\* extent that backs it.
C5_SizeWithinCapacity ==
    \A f \in LiveFiles : heap[f].size <= heap[f].data.len

\* A live file filled to the last byte of its extent after a truncate grew it.
C5_Witness ==
    \E f \in LiveFiles :
        /\ heap[f].size = heap[f].data.len
        /\ heap[f].data.len > DefaultInitialFileSize

\* C6 (durability across restart): a file that held data at a clean
\* unmount, or whose fsync returned right before the daemon was killed, is
\* there with the same content after the daemon is started again.
C6_DurableAcrossRestart ==
    (last.op = "mount" /\ last.how # "first")
        => \A nm \in DOMAIN last.had :
               (last.had[nm].size > 0 /\ (last.how = "unmount" \/ nm = last.fsynced))
                   => /\ nm \in DOMAIN RootFiles
                      /\ RootFiles[nm] = last.had[nm]

\* Offset i lies in the range request w writes.
InRange(w, i) == w.off <= i /\ i < w.off + Len(w.data)

\* C7 (per-file serialisation): when two concurrent writes to the same file
\* (empty before them) have both returned success, the size is the larger
\* of the two ends and every byte only one of them covers reads back as
\* that write's byte.
C7_PerFileSerialisation ==
    \A t1, t2 \in Threads :
        (/\ t1 # t2
         /\ thr[t1].pc = "done" /\ thr[t1].op = "write" /\ thr[t1].err = "ok"
         /\ thr[t2].pc = "done" /\ thr[t2].op = "write" /\ thr[t2].err = "ok"
         /\ thr[t1].obj = thr[t2].obj)
            => LET o == heap[thr[t1].obj]
                   w1 == thr[t1].req
                   w2 == thr[t2].req
               IN  /\ o.size = Max(WriteNewSize(w1), WriteNewSize(w2))
                   /\ \A i \in (w1.off)..(w1.off + Len(w1.data) - 1) :
                          ~InRange(w2, i)
                              => Read(o, mem, i, 1).data = <<w1.data[i - w1.off + 1]>>

\* C8 (per-directory serialisation): no two requests are inside a mutation
\* of the same directory's child map at the same time, and the runtime
\* never aborts the daemon for concurrent access to a child map.
C8_PerDirSerialisation ==
    /\ ~crashed
    /\ \A t1, t2 \in Threads :
           (t1 # t2 /\ thr[t1].pc = "map_end" /\ thr[t2].pc = "map_end")
               => thr[t1].obj # thr[t2].obj

\* After a successful truncate to n the size reported is n and no read
\* returns a byte at or beyond n.
C9_TruncateState ==
    (last.op = "setattr" /\ last.err = "ok")
        => LET o == heap[last.obj]
           IN  /\ Attr(o).size = last.size
               /\ \A req \in ReadProbes :
                      LET r == Read(o, mem, req.off, req.size)
                      IN  /\ r.err = "ok"
                          /\ req.off + Len(r.data) <= Max(last.size, req.off)
                          /\ (req.off >= last.size => r.data = <<>>)

\* A write of d at offset 0 right after a truncate to 0 makes the content d.
C9_TruncateThenWrite ==
    (/\ last.op = "setattr" /\ last.err = "ok" /\ last.size = 0
     /\ last'.op = "write" /\ last'.err = "ok" /\ last'.obj = last.obj
     /\ last'.req.off = 0 /\ ops' # ops)
        => /\ Attr(heap'[last'.obj]).size = Len(last'.req.data)
           /\ Read(heap'[last'.obj], mem', 0, Len(last'.req.data) + 1).data = last'.req.data

\* C9 (truncate): after a truncate to n the size reported is n and no read
\* returns a byte at or beyond n; a write of d at offset 0 right after a
\* truncate to 0 makes the content exactly d.
C9_Truncate == [] C9_TruncateState /\ [][C9_TruncateThenWrite]_vars

\* A truncate just cut a file below bytes that are still in its extent.
C9_Witness ==
    /\ last.op = "setattr" /\ last.err = "ok" /\ last.size = 1
    /\ Peek(mem, heap[last.obj].offset + 1) # 0

\* The bytes of the extent in [off, min(off + size, o.size)), in order.
ReadExpected(o, off, size) ==
    IF off >= o.size THEN <<>>
    ELSE [k \in 1..(Min(off + size, o.size) - off) |-> Peek(mem, o.offset + off + k - 1)]

\* C10 (read result): a read at or beyond the size is empty; otherwise it
\* returns the extent's bytes [offset, min(offset+length, size)) in order.
C10_ReadResult ==
    /\ \A f \in Files : \A req \in ReadProbes :
           LET r == Read(heap[f], mem, req.off, req.size)
           IN  /\ r.err = "ok"
               /\ r.data = ReadExpected(heap[f], req.off, req.size)
               /\ Len(r.data) <= req.size
    /\ last.op = "read"
           => /\ last.err = "ok"
              /\ last.data = ReadExpected(heap[last.obj], last.req.off, last.req.size)

\* A read that crosses the end of the file got the bytes below the size only.
C10_Witness ==
    /\ last.op = "read"
    /\ Len(last.data) > 0
    /\ Len(last.data) < last.req.size
    /\ \E k \in 1..Len(last.data) : last.data[k] # 0

\* C11 (write result): a successful write reports the length of its data
\* and leaves the size at max(previous size, offset + length); a write that
\* ends at or below the size leaves the size unchanged.
C11_WriteResult ==
    [][ (ops' # ops /\ last'.op = "write" /\ last'.err = "ok")
        => LET f == last'.obj
               req == last'.req
               end == req.off + Len(req.data)
           IN  /\ last'.n = Len(req.data)
               /\ Attr(heap'[f]).size = Max(Attr(heap[f]).size, end)
               /\ (end <= heap[f].size => heap'[f].size = heap[f].size) ]_vars

\* A write that ended below the size of the file just returned.
C11_Witness ==
    /\ last.op = "write" /\ last.err = "ok" /\ last.n = 1
    /\ last.req.off + Len(last.req.data) < heap[last.obj].size
    /\ heap[last.obj].size > DefaultInitialFileSize

\* The usable data area: from the metadata reservation to the end of the
\* mapped device.
InUsableArea(e) == MetadataReservationSize <= e.lo /\ e.hi <= DevSize

\* C12 (extent bounds): every extent the allocator has handed out (all of
\* them end at or below the watermark), every extent a file owns and every
\* free-list extent lies inside the usable data area.
C12_ExtentBounds ==
    /\ MetadataReservationSize <= nextOffset /\ nextOffset <= DevSize
    /\ \A f \in Files : InUsableArea(Extent(heap[f]))
    /\ \A i \in 1..Len(freeSpaces) : InUsableArea(FreeExtent(i))

\* C13 (out of space): a create, write or truncate that fails does so with
\* ENOSPC, and the file of a failed write or truncate is still there.
C13_OutOfSpace ==
    (last.op \in {"create", "write", "setattr"} /\ last.err # "ok")
        => /\ last.err = "ENOSPC"
           /\ (last.op # "create" => last.obj \in LiveFiles)

\* C14 (create of an existing name): create or mkdir of a name the parent
\* already holds fails with EEXIST, the existing child stays bound to the
\* name and the allocator hands out nothing.
C14_CreateExisting ==
    [][ (/\ ops' # ops /\ last'.op \in {"create", "mkdir"}
         /\ last'.name \in DOMAIN heap[last'.dir].children)
        => /\ last'.err = "EEXIST"
           /\ heap'[last'.dir].children = heap[last'.dir].children
           /\ nextOffset' = nextOffset /\ freeSpaces' = freeSpaces ]_vars

\* A name the specification admits: not empty, no '/' (47), no NUL (0).
ValidName(nm) == nm # <<>> /\ \A i \in 1..Len(nm) : nm[i] # 47 /\ nm[i] # 0

\* C15 (invalid names): create or mkdir with the empty name or a name
\* holding '/' or NUL fails with EINVAL and leaves the directory and the
\* allocator unchanged.
C15_InvalidNames ==
    [][ (ops' # ops /\ last'.op \in {"create", "mkdir"} /\ ~ValidName(last'.name))
        => /\ last'.err = "EINVAL"
           /\ heap' = heap
           /\ nextOffset' = nextOffset /\ freeSpaces' = freeSpaces ]_vars

\* C16 (absent names): lookup, unlink or rmdir of a name the directory does
\* not hold answers ENOENT and leaves the child map, the modification time
\* and the allocator as they were.
C16_AbsentNames ==
    [][ (/\ ops' # ops /\ last'.op \in {"lookup", "remove"}
         /\ last'.name \notin DOMAIN heap[last'.dir].children)
        => /\ last'.err = "ENOENT"
           /\ heap'[last'.dir].children = heap[last'.dir].children
           /\ heap'[last'.dir].modTime = heap[last'.dir].modTime
           /\ heap' = heap
           /\ nextOffset' = nextOffset /\ freeSpaces' = freeSpaces ]_vars

\* A remove of an absent name was just refused in a directory that holds
\* another name and has been modified before.
C16_Witness ==
    /\ last.op = "remove" /\ last.err = "ENOENT"
    /\ heap[last.dir].children # EmptyMap
    /\ last.name \notin DOMAIN heap[last.dir].children
    /\ heap[last.dir].modTime > 1

\* C17 (type-mismatched removal): unlink of a name bound to a directory
\* fails with EISDIR, rmdir of a name bound to a file fails with ENOTDIR,
\* and the entry stays.
C17_TypeMismatch ==
    [][ (/\ ops' # ops /\ last'.op = "remove"
         /\ last'.name \in DOMAIN heap[last'.dir].children
         /\ last'.rmdir # IsDir(heap[last'.dir].children[last'.name]))
        => /\ last'.err = IF last'.rmdir THEN "ENOTDIR" ELSE "EISDIR"
           /\ heap'[last'.dir].children = heap[last'.dir].children ]_vars

\* C18 (non-empty rmdir): rmdir of a directory that still has a child fails
\* with ENOTEMPTY and removes nothing.
C18_RmdirNotEmpty ==
    [][ (/\ ops' # ops /\ last'.op = "remove" /\ last'.rmdir
         /\ last'.name \in DOMAIN heap[last'.dir].children
         /\ IsDir(heap[last'.dir].children[last'.name])
         /\ heap[heap[last'.dir].children[last'.name]].children # EmptyMap)
        => /\ last'.err = "ENOTEMPTY"
           /\ heap' = heap ]_vars

\* C19 (unlink releases space): after a successful unlink of a file the
\* file's whole extent is on the free list.
C19_UnlinkFrees ==
    [][ (/\ ops' # ops /\ last'.op = "remove" /\ last'.err = "ok" /\ ~last'.rmdir
         /\ IsFile(last'.obj))
        => \E i \in 1..Len(freeSpaces') :
               /\ freeSpaces'[i].offset = heap[last'.obj].offset
               /\ freeSpaces'[i].size = AlignUp(heap[last'.obj].data.len) ]_vars

\* The entries a listing of directory d has to show: one per name that
\* Lookup resolves, with that child's inode number and type.
ExpectedDirents(h, d) ==
    { [inode |-> Attr(h[Lookup(h, d, nm).obj]).inode,
       type |-> IF IsFile(Lookup(h, d, nm).obj) THEN "DT_File" ELSE "DT_Dir",
       name |-> nm] : nm \in {x \in DirNames : Lookup(h, d, x).err = "ok"} }

\* In every state readdir lists exactly the names lookup resolves, and the
\* reply of a lookup or readdir upcall is the one the child map gives.
C20_ViewState ==
    /\ \A d \in LiveDirs :
           /\ ReadDirAll(heap, d) = ExpectedDirents(heap, d)
           /\ Cardinality(ReadDirAll(heap, d)) = Cardinality(DOMAIN heap[d].children)
           /\ \A nm \in DirNames :
                  Lookup(heap, d, nm).err = IF nm \in DOMAIN heap[d].children THEN "ok"
                                                                            ELSE "ENOENT"
    /\ (last.op = "lookup" =>
            /\ last.err = Lookup(heap, last.dir, last.name).err
            /\ last.obj = Lookup(heap, last.dir, last.name).obj)
    /\ (last.op = "readdir" => last.entries = ExpectedDirents(heap, last.dir))

\* A successful create or mkdir makes its name resolve to the new child, a
\* successful remove makes its name absent, and no upcall changes what any
\* other name of any directory resolves to.
C20_ViewStep ==
    \A d \in LiveDirs : \A nm \in DirNames :
        IF ops' # ops /\ last'.op \in {"create", "mkdir"} /\ last'.err = "ok"
              /\ last'.dir = d /\ last'.name = nm
        THEN /\ Lookup(heap', d, nm) = [err |-> "ok", obj |-> last'.obj]
             /\ last'.obj \notin Ptrs
             /\ heap'[last'.obj].kind = IF last'.op = "create" THEN "file" ELSE "dir"
        ELSE IF ops' # ops /\ last'.op = "remove" /\ last'.err = "ok"
                   /\ last'.dir = d /\ last'.name = nm
        THEN Lookup(heap', d, nm).err = "ENOENT"
        ELSE Lookup(heap', d, nm) = Lookup(heap, d, nm)

\* C20 (directory view): lookup succeeds exactly for the names created and
\* not removed since and returns that child; readdir returns exactly one
\* entry per such name with the child's inode number and type; a removed
\* name gives ENOENT.
C20_DirectoryView ==
    /\ \A d \in Dirs : heap[d].children = EmptyMap
    /\ [] C20_ViewState
    /\ [][C20_ViewStep]_vars

\* A listing of the root directory, after one of two children was removed,
\* showed the directory that is left.
C20_Witness ==
    /\ last.op = "readdir" /\ last.dir = 1
    /\ Len(heap) = 3 /\ Cardinality(Live) = 2
    /\ \E e \in last.entries : e.type = "DT_Dir" /\ e.name = <<97>> /\ e.inode > 1

\* Sizes the properties call the allocator with.
AllocProbes == {1, 4095, 4096, 4097, 65536, 65537, 70000, 131072, 140000}

Aligned(x) == x % BlockAlignmentSize = 0

\* Every offset and length of a free list is a multiple of the block size.
AlignedList(fl) == \A i \in 1..Len(fl) : Aligned(fl[i].offset) /\ Aligned(fl[i].size)

\* C21 (allocator alignment): the watermark, every offset a file got from
\* the allocator and every free-list offset and length are multiples of
\* 4096, and so are the offset, the length taken and the free list of
\* every further allocate or free call, whatever size is requested.
C21_AllocatorAlignment ==
    /\ Aligned(nextOffset)
    /\ AlignedList(freeSpaces)
    /\ \A f \in Files : Aligned(heap[f].offset)
    /\ \A size \in AllocProbes :
           LET al == allocateSpace(nextOffset, freeSpaces, size)
           IN  /\ Aligned(al.offset)
               /\ Aligned(al.nextOffset) /\ Aligned(al.nextOffset - nextOffset)
               /\ AlignedList(al.freeSpaces)
               /\ \A f \in Files : AlignedList(freeSpace(freeSpaces, heap[f].offset, size))

\* A file holds an extent whose length is no multiple of 4096 while the
\* free list holds the rounded extent of such a length freed earlier.
C21_Witness ==
    /\ \E f \in LiveFiles : ~Aligned(heap[f].data.len)
    /\ \E i \in 1..Len(freeSpaces) : freeSpaces[i].size = AlignUp(DefaultInitialFileSize + 1)

\* The least multiple of 4096 that is at least size.
RoundedUp(size) ==
    size + ((BlockAlignmentSize - (size % BlockAlignmentSize)) % BlockAlignmentSize)

\* What an allocate call of size has to return and leave behind, given the
\* watermark no and the free list fl.
FirstFitHolds(no, fl, size, al) ==
    LET aligned == RoundedUp(size)
        fits == {i \in 1..Len(fl) : fl[i].size >= aligned}
    IN  IF fits # {}
        THEN \E i \in fits :
                 /\ \A j \in 1..(i - 1) : fl[j].size < aligned
                 /\ al.offset = fl[i].offset
                 /\ al.nextOffset = no
                 /\ IF fl[i].size = aligned
                    THEN /\ Len(al.freeSpaces) = Len(fl) - 1
                         /\ \A j \in 1..(i - 1) : al.freeSpaces[j] = fl[j]
                         /\ \A j \in i..(Len(fl) - 1) : al.freeSpaces[j] = fl[j + 1]
                    ELSE /\ Len(al.freeSpaces) = Len(fl)
                         /\ al.freeSpaces[i] = [offset |-> fl[i].offset + aligned,
                                                size |-> fl[i].size - aligned]
                         /\ \A j \in 1..Len(fl) : j # i => al.freeSpaces[j] = fl[j]
        ELSE /\ al.offset = no
             /\ al.nextOffset = no + aligned
             /\ al.freeSpaces = fl

\* C29 (first-fit allocation and free): allocate takes the first free
\* extent in insertion order that holds the rounded request, returns its
\* prefix and shrinks it from the front or removes it, leaving the
\* watermark and the other extents alone; only when none fits it returns
\* the watermark and advances it; free appends exactly one extent of the
\* rounded length.
C29_FirstFit ==
    /\ \A size \in AllocProbes :
           FirstFitHolds(nextOffset, freeSpaces, size,
                         allocateSpace(nextOffset, freeSpaces, size))
    /\ \A f \in Files : \A size \in AllocProbes :
           freeSpace(freeSpaces, heap[f].offset, size)
               = freeSpaces \o <<[offset |-> heap[f].offset, size |-> RoundedUp(size)]>>

\* The free list holds two extents of which only the second holds a request
\* of 70000 bytes, with room to spare, while a request of one block fits both.
C29_Witness ==
    /\ Len(freeSpaces) >= 2
    /\ freeSpaces[1].size < RoundedUp(70000)
    /\ freeSpaces[2].size > RoundedUp(70000)
    /\ freeSpaces[1].size > BlockAlignmentSize

\* Watermarks the properties evaluate Statfs on: below the metadata
\* reservation, inside the device, and beyond its end.
StatProbes ==
    {0, BlockAlignmentSize, MetadataReservationSize, MetadataReservationSize + BlockAlignmentSize,
     DevSize, DevSize + BlockAlignmentSize, DevSize + MetadataReservationSize,
     DevSize + MetadataReservationSize + BlockAlignmentSize, 3 * DevSize}

\* The block counts of a statfs response are in range.
StatfsInRange(resp) ==
    /\ resp.Blocks >= 0
    /\ resp.Bfree >= 0 /\ resp.Bfree <= resp.Blocks
    /\ resp.Bavail >= 0 /\ resp.Bavail <= resp.Blocks

\* C22 (statfs non-negativity): every statfs reply reports free <= total
\* with both >= 0, after every sequence of operations and for a watermark
\* below the metadata reservation or beyond the end of the device.
C22_StatfsNonNegative ==
    /\ last.op = "statfs" => StatfsInRange(last.resp)
    /\ StatfsInRange(Statfs(nextOffset, inodeCount, DevSize))
    /\ \A no \in StatProbes : StatfsInRange(Statfs(no, inodeCount, DevSize))

\* statfs has answered after the watermark moved beyond the end of the device.
C22_Witness ==
    /\ last.op = "statfs"
    /\ nextOffset > DevSize
    /\ last.resp.Bfree < last.resp.Blocks

\* C23 (statfs accounting): statfs reports used = next_offset - metadata
\* reservation - sum of the free-list lengths and free = total - used, so
\* space on the free list counts as free again.
C23_StatfsAccounting ==
    LET used == Max(0, nextOffset - MetadataReservationSize - SumSeq(freeSpaces, 1))
    IN  last.op = "statfs" =>
            last.resp.Bfree = Min(BlocksOf(Max(0, DevSize - used)), BlocksOf(DevSize))

\* The persistence upcalls of a file.
SyncOps == {"flush", "fsync", "release"}

\* The reply of a persistence upcall is success.
C24_SyncState == last.op \in SyncOps => last.err = "ok"

\* A persistence upcall leaves every file's size, extent and content alone.
C24_SyncStep ==
    (ops' = ops + 1 /\ last'.op \in SyncOps) =>
        /\ heap' = heap
        /\ mem' = mem
        /\ nextOffset' = nextOffset /\ freeSpaces' = freeSpaces
        /\ \A f \in LiveFiles : FileView(heap'[f], mem') = FileView(heap[f], mem)

\* C24 (best-effort persistence on the data path): flush, fsync and release
\* on a file return success whether the full-mapping sync succeeds or
\* fails, and change neither the size, the content nor the extent of a file.
C24_BestEffortSync == [] C24_SyncState /\ [][C24_SyncStep]_vars

\* A release whose sync failed has been answered on a file that holds data:
\* the mapping is still unsynced.
C24_Witness ==
    /\ last.op = "release"
    /\ dirty
    /\ heap[last.obj].size > 0
    /\ Peek(mem, heap[last.obj].data.base) # 0

\* The size a successful write or truncate reply asks the file to hold.
RequestedSize(r) == IF r.op = "write" THEN r.req.off + Len(r.req.data) ELSE r.size

\* What a write or truncate that asks file f to hold newSize bytes does to
\* the extent of f.
GrowthRule(f, newSize) ==
    LET cap == heap[f].data.len
        newCapacity == Max(newSize, 2 * cap)
        al == allocateSpace(nextOffset, freeSpaces, newCapacity)
    IN  IF newSize > cap
        THEN /\ heap'[f].data.len = newCapacity
             /\ heap'[f].offset = al.offset /\ heap'[f].data.base = al.offset
             /\ heap'[f].offset # heap[f].offset
             /\ nextOffset' = al.nextOffset
             /\ freeSpaces' = al.freeSpaces \o
                    <<[offset |-> heap[f].offset, size |-> RoundedUp(cap)]>>
        ELSE /\ heap'[f].data = heap[f].data
             /\ heap'[f].offset = heap[f].offset
             /\ nextOffset' = nextOffset /\ freeSpaces' = freeSpaces

\* C30 (growth policy): a write or truncate that needs new_size > capacity
\* leaves the file with capacity max(new_size, 2 * old capacity) in a
\* freshly allocated extent and puts the old extent on the free list once,
\* truncate by the same rule as write; with new_size <= capacity the extent
\* does not change.
C30_GrowthPolicy ==
    [][(ops' = ops + 1 /\ last'.op \in {"write", "setattr"} /\ last'.err = "ok")
           => GrowthRule(last'.obj, RequestedSize(last'))]_vars

\* Position of the first occurrence of step x in the steps main took since
\* the signal, 0 if it took none.
StepAt(x) ==
    LET at == {i \in 1..Len(daemon.steps) : daemon.steps[i] = x}
    IN  IF at = {} THEN 0 ELSE CHOOSE i \in at : \A j \in at : i <= j

\* C28 (shutdown order): after an interrupt or terminate signal the daemon
\* stops accepting upcalls, then flushes the full mapping, and only then
\* unmaps and closes the device; the mapping is never unmapped, and the
\* process never exits, before that flush.
C28_ShutdownOrder ==
    (daemon.sig \in Signals /\ (StepAt("munmap") > 0 \/ StepAt("exit") > 0)) =>
        /\ StepAt("flush") > 0
        /\ StepAt("unmount") > 0 /\ StepAt("unmount") < StepAt("flush")
        /\ StepAt("munmap") > 0 => StepAt("flush") < StepAt("munmap")
        /\ StepAt("exit") > 0 => StepAt("flush") < StepAt("exit")

\* The label format the mount logic is documented to read: a label of
\* 256 KiB at four positions of the device, holding 128 uberblock slots of
\* 1 KiB from 128 KiB on, each starting with the magic, little-endian.
LabelSize == 262144
UberblockArrayOffset == 131072
UberblockSlotSize == 1024
UberblockSlots == 128
UberblockMagicBytes == <<245, 225, 123, 163, 0, 0, 0, 0>>

\* Offsets of the two front and the two back labels.
LabelOffsets == {0, LabelSize, DevSize - 2 * LabelSize, DevSize - LabelSize}

\* The uberblock slots of device image m whose magic matches; only these
\* can be valid.
MagicSlots(m) ==
    { sl \in LabelOffsets \X (0..(UberblockSlots - 1)) :
        \A k \in 1..Len(UberblockMagicBytes) :
            Peek(m, sl[1] + UberblockArrayOffset + sl[2] * UberblockSlotSize + k - 1)
                = UberblockMagicBytes[k] }

\* Replies of the handlers that change the tree.
TreeOps == {"create", "mkdir", "remove"}

\* C25 (mount-time root selection): mount selects the valid uberblock slot
\* of greatest TXG among the four labels; when no slot is valid the mount
\* fails and no filesystem is served.
C25_RootSelection ==
    (last.op = "mount" /\ MagicSlots(mem) = {}) => daemon.pc # "serving"

\* C26 (torn-write survival): when the daemon stops right after a tree
\* mutation whose persist step failed, the next mount still selects a valid
\* uberblock, the new one or that of the previous TXG: one is on the device.
C26_TornWriteSurvival ==
    [][(ops' = ops + 1 /\ last'.op = "mount"
          /\ last.op \in TreeOps /\ last.err = "ok" /\ dirty)
           => MagicSlots(mem') # {}]_vars

\* C27 (commit atomicity): a mutation whose commit completed is visible
\* after the next mount: a name created in the root, with nothing left
\* unsynced when the handler returned, resolves in the root served after
\* the restart.
C27_CommitAtomicity ==
    [][(ops' = ops + 1 /\ last'.op = "mount"
          /\ last.op \in {"create", "mkdir"} /\ last.err = "ok" /\ last.dir = 1 /\ ~dirty)
           => Lookup(heap', 1, last.name).err = "ok"]_vars

\* C31 (flush after tree mutation): every successful create, mkdir, unlink
\* and rmdir has requested a flush of the mapping when it returns, with the
\* parent's child map and modification time already changed; the flush may
\* have failed, the operation still succeeds, and a flush that went through
\* leaves nothing unsynced.
C31_FlushAfterTreeMutation ==
    (last.op \in TreeOps /\ last.err = "ok") =>
        /\ last.flush \in {"ok", "failed"}
        /\ last.flush = "ok" => ~dirty
        /\ heap[last.dir].modTime > NewFilesystem.rootDir.modTime
        /\ IF last.op = "remove"
           THEN last.name \notin DOMAIN heap[last.dir].children
           ELSE Lookup(heap, last.dir, last.name).obj = last.obj

\* An rmdir has returned success although its flush failed and left the
\* mapping unsynced.
C31_Witness ==
    /\ last.op = "remove" /\ last.rmdir
    /\ last.err = "ok"
    /\ last.flush = "failed"
    /\ dirty

\* The slices of a sequence, each starting on a page boundary, together
\* cover every byte of [lo, hi).
Covers(slices, pageSize, lo, hi) ==
    /\ Len(slices) > 0
    /\ slices[1].lo <= lo
    /\ slices[Len(slices)].hi >= hi
    /\ \A i \in 1..Len(slices) : slices[i].lo % pageSize = 0 /\ slices[i].lo < slices[i].hi
    /\ \A i \in 1..(Len(slices) - 1) : slices[i + 1].lo <= slices[i].hi

\* C32 (write-back full): a finished call of Device.Flush has synced
\* page-aligned slices inside the mapping that together cover [0, size),
\* those after a failed slice included, and it returns an error exactly
\* when at least one slice failed.
C32_WriteBackFull ==
    (call.pc = "done" /\ call.fn = "Device.Flush") =>
        /\ Covers(call.slices, call.pageSize, 0, call.size)
        /\ \A i \in 1..Len(call.slices) : call.slices[i].hi <= call.size
        /\ call.err <=> (\E i \in 1..Len(call.slices) : ~call.slices[i].ok)

\* A call over more than three chunks has returned an error after its first
\* slice failed and a later one went through.
C32_Witness ==
    /\ call.pc = "done" /\ call.fn = "Device.Flush"
    /\ Len(call.slices) >= 4
    /\ ~call.slices[1].ok /\ call.slices[4].ok
    /\ call.size % call.pageSize # 0
    /\ call.err

\* The cache lines that hold a byte of [offset, offset + length).
LinesOf(offset, length) ==
    IF length = 0 THEN {}
    ELSE (offset \div CacheLineSize)..((offset + length - 1) \div CacheLineSize)

\* C33 (write-back range coverage): for a range inside the mapping the fast
\* path writes back every 64-byte cache line the range intersects, also
\* when the range does not start on a line boundary; the fallback syncs a
\* page-aligned range inside the mapping that contains the range; a range
\* outside the mapping is rejected with an error.
C33_RangeCoverage ==
    (call.pc = "done" /\ call.fn = "FlushRegion") =>
        IF call.offset < 0 \/ call.offset + call.length > call.size
        THEN call.err = "bounds"
        ELSE /\ call.err # "bounds"
             /\ (call.sse2 /\ call.length > 0) => LinesOf(call.offset, call.length) \subseteq call.lines
             /\ (~call.sse2 /\ call.length > 0) =>
                    /\ Covers(call.slices, call.pageSize, call.offset, call.offset + call.length)
                    /\ call.slices[1].hi <= call.size

\* C34 (path-independent durability): on either persistence path, when a
\* write-back call returns success every store issued before it is durable:
\* the mapping holds no unsynced store.
C34_PathIndependentDurability ==
    (last.op = "mmapflush" /\ last.err = "ok") => ~dirty

\* C35 (daemon termination): once the filesystem has been unmounted and
\* the serve loop has ended, the daemon goes on to terminate without any
\* further signal or input: whenever fs.Serve has returned and the process
\* has not exited, main has a step of its own to take.
C35_DaemonTermination ==
    daemon.pc \notin {"serving", "exited"} => ENABLED MainStep

\* Replies of the upcalls that allocate nothing; a remove counts when it
\* is an rmdir.
FrameOps == {"mkdir", "remove", "lookup", "readdir", "getattr", "read", "statfs", "flush",
             "fsync"}

\* C36 (frame of non-allocating operations): mkdir, rmdir, lookup, readdir,
\* getattr, read, statfs, flush and fsync leave the watermark, the free
\* list and every file's extent, size and content as they were, and a
\* directory made by mkdir has no extent.
C36_Frame ==
    [][(ops' = ops + 1 /\ last'.op \in FrameOps /\ (last'.op = "remove" => last'.rmdir))
           => /\ nextOffset' = nextOffset
              /\ freeSpaces' = freeSpaces
              /\ \A f \in LiveFiles :
                     /\ f \in LiveFiles'
                     /\ heap'[f].offset = heap[f].offset
                     /\ heap'[f].data = heap[f].data
                     /\ FileView(heap'[f], mem') = FileView(heap[f], mem)
              /\ (last'.op = "mkdir" /\ last'.err = "ok")
                     => heap'[last'.obj].kind = "dir" /\ heap'[last'.obj].data.len = 0]_vars

C38_NoDoubleFree ==
    /\ \A i, j \in 1..Len(freeSpaces) :
           i # j => Disjoint(FreeExtent(i), FreeExtent(j))
    /\ \A f \in LiveFiles : \A i \in 1..Len(freeSpaces) :
           heap[f].data.len > 0 =>
               Disjoint([lo |-> heap[f].data.base,
                         hi |-> heap[f].data.base + heap[f].data.len], FreeExtent(i))
    /\ \A f, g \in LiveFiles :
           (f # g /\ heap[f].data.len > 0 /\ heap[g].data.len > 0) =>
               Disjoint([lo |-> heap[f].data.base,
                         hi |-> heap[f].data.base + heap[f].data.len],
                        [lo |-> heap[g].data.base,
                         hi |-> heap[g].data.base + heap[g].data.len])

\* C39 (inode uniqueness): over any sequence and any interleaving of
\* create and mkdir requests no two nodes have the same inode number,
\* every node but the root has an inode number above 1, and inode 1 is
\* the root directory.
C39_InodeUniqueness ==
    /\ \A p, q \in Ptrs : p # q => heap[p].inode # heap[q].inode
    /\ \A p \in Ptrs \ {1} : heap[p].inode > 1
    /\ heap[1].inode = 1 /\ heap[1].kind = "dir" /\ heap[1].name = "/"

\* The mutex a goroutine is about to lock, "" when it is not at a Lock.
WaitsFor(t) ==
    IF call.g[t].pc = "lock_offset" THEN "offsetMu"
    ELSE IF call.g[t].pc = "lock_free" THEN "freeSpacesMu"
    ELSE ""

\* C40 (allocator progress): every allocate and free call goes on to
\* return, for any interleaving and also when the size asked for exceeds
\* the space left: no goroutine locks a mutex it already holds, none locks
\* offsetMu while holding freeSpacesMu, and whenever calls are in progress
\* one of them has a step to take.
C40_AllocatorProgress ==
    call.pc = "locks" =>
        /\ \A t \in Threads : WaitsFor(t) # "" => call[WaitsFor(t)] # t
        /\ \A t \in Threads : ~(call.freeSpacesMu = t /\ WaitsFor(t) = "offsetMu")
        /\ (\E t \in Threads : call.g[t].pc # "idle")
               => \E t \in Threads :
                      /\ call.g[t].pc # "idle"
                      /\ WaitsFor(t) # "" => call[WaitsFor(t)] = ""

====
